---- MODULE Spec2Model ----
(***************************************************************************)
(* Funding-rate decision engine of okx-funding-bot.                        *)
(*                                                                         *)
(* Three copies of the decision logic exist in the repository:             *)
(*   - FundingRateStrategy.generate_signal  (funding_strategy.py), driven  *)
(*     row by row by test_parameters        (optimize_params.py);          *)
(*   - main                                 (paper_bot_v2.py), the polling *)
(*     paper-trading cycle working on the persisted state file;            *)
(*   - analyze_signal                       (monitor_signals.py), a pure   *)
(*     advice function.                                                    *)
(* The model replays one stream of market samples through all three.       *)
(*                                                                         *)
(* Further parts: the manual close of trade_manager.py, which works on the *)
(* state file of the paper bot and on its own history file (LedgerSpec),   *)
(* and grid_search of optimize_params.py with the test_parameters calls it *)
(* makes on one csv file (GridSpec, AnyOrderSpec).                         *)
(*                                                                         *)
(* Numbers.  Funding rates and rate thresholds are integers in units of    *)
(* 1/1000 (0.6 is 600, 0.003 is 3).  Prices are integers.  PnL percentages *)
(* are exact rationals <<numerator, denominator>> in lowest terms with a   *)
(* positive denominator; the source computes them in binary floating       *)
(* point.                                                                   *)
(*                                                                         *)
(* funding_strategy.py lines 75-90 (the short branch of generate_signal)   *)
(* are written at column 0 in the source, outside the method.  They are    *)
(* modelled here as the third branch of the method, which is what their    *)
(* text (self.position, return) says.  generate_signal_def is the method   *)
(* that the def statement alone, lines 35-73, defines (DefSpec).           *)
(***************************************************************************)
EXTENDS Integers, Sequences, FiniteSets, TLC

VARIABLES
    strategy,      \* the FundingRateStrategy object of test_parameters
    signal,        \* test_parameters: value returned by generate_signal for the last row
    row,           \* the last sample handed to the three deciders
    idx,           \* number of samples replayed so far
    trades,        \* test_parameters: the trades list
    total_pnl,     \* test_parameters: running sum of realised pnl
    signal_log,    \* backtest_strategy: the 'signal' of every record of its trades list
    paper_file,    \* paper_state.json: <<>> when missing, <<text>> otherwise
    paper_action,  \* paper_bot_v2.main: branch taken in the last cycle
    advice,        \* monitor_signals.analyze_signal: result for the last sample
    history_file,  \* trade_history.json: <<>> when missing, <<history>> otherwise
    data_file,     \* the rows of the csv file test_parameters reads
    results,       \* grid_search: the results list
    combo,         \* grid_search: combinations of the product consumed so far
    pc,            \* grid_search: where control is
    reports,       \* the sorted table every finished grid_search saved and returned
    kind,          \* how the installed sort orders rows with equal keys
    order,         \* the order in which the combinations are evaluated
    call_log,      \* every finished test_parameters call: arguments, trades, return value
    fetched,       \* paper bot: what the requests of the last cycle came back with
    fetch,         \* fetch_with_retry: the call in progress, its locals and what it did so far
    bot_proc,      \* the paper_bot_v2 process: where it is in main and the state dict it holds
    tm_proc,       \* the trade_manager process: where it is in close_position and its state dict
    auto_bot,      \* the AutoTradingBot object: position, entry_price, entry_time
    exchange       \* the exchange account: its net position; the calls of the last run_once

ledger_vars == <<history_file>>

grid_vars == <<data_file, results, combo, pc, reports, kind, order, call_log>>

bot_vars == <<fetched>>

proc_vars == <<fetch, bot_proc, tm_proc>>

auto_vars == <<auto_bot, exchange>>

vars == <<strategy, signal, row, idx, trades, total_pnl, signal_log, paper_file, paper_action,
          advice, history_file, data_file, results, combo, pc, reports, kind, order, call_log,
          fetched, fetch, bot_proc, tm_proc, auto_bot, exchange>>

\* no call of fetch_with_retry is in progress
NoCall ==
    [pc |-> "idle", calls |-> 0, module |-> "paper_bot_v2", retries |-> 0, attempt |-> 0,
     log |-> <<>>, slept |-> 0, ret |-> "None"]

\* the processes that a specification does not run have not started
NotRunning == [pc |-> "idle", state |-> "None"]

\* AutoTradingBot.__init__, okx_trading_bot.py lines 220-222; entry_price and
\* entry_time are <<>> for None and <<value>> otherwise
NewBot == [position |-> "None", entry_price |-> <<>>, entry_time |-> <<>>]

\* an account without a position, and no call made yet
NoAccount == [net |-> 0, calls |-> <<>>]

ProcsIdle ==
    /\ fetch = NoCall
    /\ bot_proc = NotRunning
    /\ tm_proc = NotRunning
    /\ auto_bot = NewBot
    /\ exchange = NoAccount

----------------------------------------------------------------------------
(* Bounds and input sets *)

MaxRows == 3

\* From an entry at 60000: 59000 is the example's exit price (raw short pnl
\* 1.667), 59400 puts the raw short pnl at exactly 1.0, 61140 puts the
\* fee-adjusted short pnl at exactly -2.0.
Prices == {59000, 59400, 60000, 61140}

\* In units of 1/1000: the thresholds of the hard-coded copies (-3, 1, 3), the
\* exit threshold of the example (100), the rates of the examples (50, 600,
\* 1000), a neutral rate and a rate below every long threshold.
Rates == {-1000, -3, 0, 1, 3, 50, 100, 600, 1000}

\* (long_threshold, short_threshold, exit_threshold) the strategy is built with:
\* the example of the specification, the thresholds of paper_bot_v2 and
\* monitor_signals, and one with the exit band wider than the short threshold
Configs ==
    { [long_threshold |-> -300, short_threshold |-> 500, exit_threshold |-> 100],
      [long_threshold |-> -3,   short_threshold |-> 3,   exit_threshold |-> 1],
      [long_threshold |-> -300, short_threshold |-> 500, exit_threshold |-> 700] }

Samples(t) == [timestamp : {t}, price : Prices, funding_rate : Rates]

NoTime == -1        \* Python None in an entry_time field

----------------------------------------------------------------------------
(* Exact arithmetic standing for the float expressions of the source *)

Abs(x) == IF x < 0 THEN -x ELSE x

RECURSIVE GCD(_, _)
GCD(a, b) == IF b = 0 THEN a ELSE GCD(b, a % b)

Rat(n, d) == LET g == GCD(Abs(n), d) IN <<n \div g, d \div g>>

\* sums over the least common denominator, which keeps the products small
RAdd(a, b) ==
    LET g == GCD(a[2], b[2])
    IN  Rat(a[1] * (b[2] \div g) + b[1] * (a[2] \div g), (a[2] \div g) * b[2])

RSub(a, b) == RAdd(a, <<-b[1], b[2]>>)
RLess(a, b) == a[1] * b[2] < b[1] * a[2]
RLeq(a, b) == a[1] * b[2] <= b[1] * a[2]

\* ((a - b) / b) * 100
PctMove(a, b) == Rat((a - b) * 100, b)

Zero == <<0, 1>>
FEE == <<1, 10>>             \* 0.1
STOP_LOSS == <<-2, 1>>       \* -2.0
TAKE_PROFIT == <<3, 2>>      \* 1.5
SHORT_TAKE_PROFIT == <<1, 1>>   \* the literal 1.0 of generate_signal's short branch

----------------------------------------------------------------------------
(* funding_strategy.py: FundingRateStrategy *)

FundingRateStrategy(long_threshold, short_threshold, exit_threshold) ==
    [long_threshold |-> long_threshold,
     short_threshold |-> short_threshold,
     exit_threshold |-> exit_threshold,
     position |-> 0,
     entry_price |-> 0,
     entry_time |-> NoTime]

calculate_pnl(self, current_price) ==
    IF self.position = 0 THEN Zero
    ELSE IF self.position = 1 THEN PctMove(current_price, self.entry_price)
    ELSE Rat((self.entry_price - current_price) * 100, self.entry_price)

\* Each branch returns [ret |-> the signal, self |-> the object after the call]

\* flat_branch with the long entry comparison made inclusive
flat_branch_inclusive(self, funding_rate, price, timestamp) ==
    IF funding_rate <= self.long_threshold THEN
        [ret |-> "LONG",
         self |-> [self EXCEPT !.position = 1, !.entry_price = price, !.entry_time = timestamp]]
    ELSE IF funding_rate > self.short_threshold THEN
        [ret |-> "SHORT",
         self |-> [self EXCEPT !.position = -1, !.entry_price = price, !.entry_time = timestamp]]
    ELSE [ret |-> "HOLD", self |-> self]

\* flat_branch that returns SHORT without recording the position
flat_branch_forget_position(self, funding_rate, price, timestamp) ==
    IF funding_rate < self.long_threshold THEN
        [ret |-> "LONG",
         self |-> [self EXCEPT !.position = 1, !.entry_price = price, !.entry_time = timestamp]]
    ELSE IF funding_rate > self.short_threshold THEN
        [ret |-> "SHORT",
         self |-> [self EXCEPT !.entry_price = price, !.entry_time = timestamp]]
    ELSE [ret |-> "HOLD", self |-> self]

\* lines 47-59: no position
flat_branch(self, funding_rate, price, timestamp) ==
    IF funding_rate < self.long_threshold THEN
        [ret |-> "LONG",
         self |-> [self EXCEPT !.position = 1, !.entry_price = price, !.entry_time = timestamp]]
    ELSE IF funding_rate > self.short_threshold THEN
        [ret |-> "SHORT",
         self |-> [self EXCEPT !.position = -1, !.entry_price = price, !.entry_time = timestamp]]
    ELSE [ret |-> "HOLD", self |-> self]

\* long_branch without the rate-reversal exit
long_branch_no_reversal(self, funding_rate, price) ==
    IF Abs(funding_rate) < self.exit_threshold THEN
        [ret |-> "CLOSE", self |-> [self EXCEPT !.position = 0]]
    ELSE [ret |-> "HOLD", self |-> self]

\* long_branch whose reversion exit forgets to reset the position
long_branch_keep_position(self, funding_rate, price) ==
    IF Abs(funding_rate) < self.exit_threshold THEN
        [ret |-> "CLOSE", self |-> self]
    ELSE IF funding_rate > self.short_threshold THEN
        [ret |-> "CLOSE", self |-> [self EXCEPT !.position = 0]]
    ELSE [ret |-> "HOLD", self |-> self]

\* long_branch whose rate-reversal exit turns the long into a short at once
long_branch_reverse(self, funding_rate, price) ==
    IF Abs(funding_rate) < self.exit_threshold THEN
        [ret |-> "CLOSE", self |-> [self EXCEPT !.position = 0]]
    ELSE IF funding_rate > self.short_threshold THEN
        [ret |-> "CLOSE", self |-> [self EXCEPT !.position = -1, !.entry_price = price]]
    ELSE [ret |-> "HOLD", self |-> self]

\* lines 62-73: long position
long_branch(self, funding_rate, price) ==
    IF Abs(funding_rate) < self.exit_threshold THEN
        [ret |-> "CLOSE", self |-> [self EXCEPT !.position = 0]]
    ELSE IF funding_rate > self.short_threshold THEN
        [ret |-> "CLOSE", self |-> [self EXCEPT !.position = 0]]
    ELSE [ret |-> "HOLD", self |-> self]

\* short_branch with the price take-profit comparison made inclusive
short_branch_tp_inclusive(self, funding_rate, price) ==
    IF Abs(funding_rate) < self.exit_threshold THEN
        [ret |-> "CLOSE", self |-> [self EXCEPT !.position = 0]]
    ELSE IF funding_rate < self.long_threshold THEN
        [ret |-> "CLOSE", self |-> [self EXCEPT !.position = 0]]
    ELSE IF RLeq(SHORT_TAKE_PROFIT, calculate_pnl(self, price)) THEN
        [ret |-> "CLOSE", self |-> [self EXCEPT !.position = 0]]
    ELSE [ret |-> "HOLD", self |-> self]

\* short_branch whose rate-reversal exit tests the short threshold, as the long branch does
short_branch_long_reversal(self, funding_rate, price) ==
    IF Abs(funding_rate) < self.exit_threshold THEN
        [ret |-> "CLOSE", self |-> [self EXCEPT !.position = 0]]
    ELSE IF funding_rate > self.short_threshold THEN
        [ret |-> "CLOSE", self |-> [self EXCEPT !.position = 0]]
    ELSE IF RLess(SHORT_TAKE_PROFIT, calculate_pnl(self, price)) THEN
        [ret |-> "CLOSE", self |-> [self EXCEPT !.position = 0]]
    ELSE [ret |-> "HOLD", self |-> self]

\* short_branch without the reversion exit
short_branch_no_reversion(self, funding_rate, price) ==
    IF funding_rate < self.long_threshold THEN
        [ret |-> "CLOSE", self |-> [self EXCEPT !.position = 0]]
    ELSE IF RLess(SHORT_TAKE_PROFIT, calculate_pnl(self, price)) THEN
        [ret |-> "CLOSE", self |-> [self EXCEPT !.position = 0]]
    ELSE [ret |-> "HOLD", self |-> self]

\* lines 76-90: short position
short_branch(self, funding_rate, price) ==
    IF Abs(funding_rate) < self.exit_threshold THEN
        [ret |-> "CLOSE", self |-> [self EXCEPT !.position = 0]]
    ELSE IF funding_rate < self.long_threshold THEN
        [ret |-> "CLOSE", self |-> [self EXCEPT !.position = 0]]
    ELSE IF RLess(SHORT_TAKE_PROFIT, calculate_pnl(self, price)) THEN
        [ret |-> "CLOSE", self |-> [self EXCEPT !.position = 0]]
    ELSE [ret |-> "HOLD", self |-> self]

generate_signal(self, funding_rate, price, timestamp) ==
    IF self.position = 0 THEN flat_branch(self, funding_rate, price, timestamp)
    ELSE IF self.position = 1 THEN long_branch(self, funding_rate, price)
    ELSE short_branch(self, funding_rate, price)

----------------------------------------------------------------------------
(* optimize_params.py: test_parameters, one iteration of the loop over rows *)

OpenTrade(sig, s) ==
    [type |-> sig, entry_price |-> s.price, entry_time |-> s.timestamp,
     entry_funding |-> s.funding_rate]

\* TradePnl without the fee
TradePnl_no_fee(last_trade, s) ==
    IF last_trade.type = "LONG"
        THEN PctMove(s.price, last_trade.entry_price)
        ELSE Rat((last_trade.entry_price - s.price) * 100, last_trade.entry_price)

TradePnl(last_trade, s) ==
    RSub(IF last_trade.type = "LONG"
            THEN PctMove(s.price, last_trade.entry_price)
            ELSE Rat((last_trade.entry_price - s.price) * 100, last_trade.entry_price),
         FEE)

CloseTrade(last_trade, s) ==
    [type |-> last_trade.type, entry_price |-> last_trade.entry_price,
     entry_time |-> last_trade.entry_time, entry_funding |-> last_trade.entry_funding,
     exit_price |-> s.price, exit_time |-> s.timestamp, pnl |-> TradePnl(last_trade, s)]

\* test_parameters_row with the close written to the first record of the list
test_parameters_row_close_first(s) ==
    LET r == generate_signal(strategy, s.funding_rate, s.price, s.timestamp) IN
    /\ strategy' = r.self
    /\ signal' = r.ret
    /\ signal_log' = IF r.ret \in {"LONG", "SHORT", "CLOSE"}
                        THEN Append(signal_log, r.ret) ELSE signal_log
    /\ IF r.ret \in {"LONG", "SHORT"} THEN
           /\ trades' = Append(trades, OpenTrade(r.ret, s))
           /\ total_pnl' = total_pnl
       ELSE IF r.ret = "CLOSE" /\ Len(trades) > 0 THEN
           /\ trades' = [trades EXCEPT ![1] = CloseTrade(trades[1], s)]
           /\ total_pnl' = RAdd(total_pnl, TradePnl(trades[1], s))
       ELSE
           /\ trades' = trades
           /\ total_pnl' = total_pnl

test_parameters_row(s) ==
    LET r == generate_signal(strategy, s.funding_rate, s.price, s.timestamp) IN
    /\ strategy' = r.self
    /\ signal' = r.ret
    /\ signal_log' = IF r.ret \in {"LONG", "SHORT", "CLOSE"}
                        THEN Append(signal_log, r.ret) ELSE signal_log
    /\ IF r.ret \in {"LONG", "SHORT"} THEN
           /\ trades' = Append(trades, OpenTrade(r.ret, s))
           /\ total_pnl' = total_pnl
       ELSE IF r.ret = "CLOSE" /\ Len(trades) > 0 THEN
           /\ trades' = [trades EXCEPT ![Len(trades)] = CloseTrade(trades[Len(trades)], s)]
           /\ total_pnl' = RAdd(total_pnl, TradePnl(trades[Len(trades)], s))
       ELSE
           /\ trades' = trades
           /\ total_pnl' = total_pnl

----------------------------------------------------------------------------
(* paper_bot_v2.py *)

PAPER_SHORT_THRESHOLD == 3   \* SHORT_THRESHOLD = 0.003
PAPER_EXIT_THRESHOLD == 1    \* EXIT_THRESHOLD = 0.001

\* What the two requests of get_market can come back with: <<>> when
\* fetch_with_retry gave up and returned None, else the one decoded body.
\* A body carries the value asked for, or an empty data list (the body of
\* an error answer of the exchange).
Ticker(p) == [code |-> "0", data |-> << [last |-> p] >>]

FundingRate(r) == [code |-> "0", data |-> << [fundingRate |-> r] >>]

ErrorBody == [code |-> "50011", data |-> <<>>]

\* get_market(): (None, None) after a failed request; r['data'][0] raises
\* IndexError on an empty list, outside any try.  The "* 100" turns the
\* fraction of the body (units of 1/100000) into percent (units of 1/1000).
get_market_rate_optional(r1_data, r2_data) ==
    IF r1_data = <<>> THEN [ret |-> "None"]
    ELSE IF r1_data[1].data = <<>> THEN [ret |-> "IndexError"]
    ELSE IF r2_data = <<>> THEN
        [ret |-> "tuple", price |-> r1_data[1].data[1].last, rate |-> 0]
    ELSE IF r2_data[1].data = <<>> THEN [ret |-> "IndexError"]
    ELSE [ret |-> "tuple", price |-> r1_data[1].data[1].last,
          rate |-> r2_data[1].data[1].fundingRate]

get_market(r1_data, r2_data) ==
    IF r1_data = <<>> THEN [ret |-> "None"]
    ELSE IF r1_data[1].data = <<>> THEN [ret |-> "IndexError"]
    ELSE IF r2_data = <<>> THEN [ret |-> "None"]
    ELSE IF r2_data[1].data = <<>> THEN [ret |-> "IndexError"]
    ELSE [ret |-> "tuple", price |-> r1_data[1].data[1].last,
          rate |-> r2_data[1].data[1].fundingRate]

\* The requests get_market made: the second one only after the first gave a price
Requests(r1_data, r2_data) ==
    IF r1_data = <<>> \/ r1_data[1].data = <<>> THEN <<r1_data>> ELSE <<r1_data, r2_data>>

\* json.dump(state, f): the text of the file as the values of the top-level
\* object in the order the dict holds its keys (balance, position,
\* entry_price, entry_time, trades), each value as the JSON token it is
\* written as (None as null, str as string, int and float as number, list as
\* array, dict as the tokens of its values in key order: action, price, rate,
\* pnl when the record has one, time), and the closing brace.
json_null == <<"null">>

json_optional(v, none) == IF v = none THEN json_null ELSE <<"string", v>>

json_object(d) ==
    IF d.action = "CLOSE"
        THEN << <<"string", d.action>>, <<"number", d.price>>, <<"number", d.rate>>,
                <<"number", d.pnl>>, <<"string", d.time>> >>
        ELSE << <<"string", d.action>>, <<"number", d.price>>, <<"number", d.rate>>,
                <<"string", d.time>> >>

json_dump_without_time(state) ==
    [members |-> << <<"number", state.balance>>,
                    json_optional(state.position, "None"),
                    <<"number", state.entry_price>>,
                    json_null,
                    <<"array", [i \in 1..Len(state.trades) |-> json_object(state.trades[i])]>> >>,
     closed |-> TRUE]

json_dump(state) ==
    [members |-> << <<"number", state.balance>>,
                    json_optional(state.position, "None"),
                    <<"number", state.entry_price>>,
                    json_optional(state.entry_time, NoTime),
                    <<"array", [i \in 1..Len(state.trades) |-> json_object(state.trades[i])]>> >>,
     closed |-> TRUE]

\* json.load(f): the dict of a complete text, each key with the value parsed
\* from its token; null comes back as None
json_value(v, none) == IF v[1] = "null" THEN none ELSE v[2]

json_load(text) ==
    LET m == text.members
        array == m[5][2]
    IN
    [balance |-> m[1][2],
     position |-> json_value(m[2], "None"),
     entry_price |-> m[3][2],
     entry_time |-> json_value(m[4], NoTime),
     trades |-> [i \in 1..Len(array) |->
                    LET o == array[i] IN
                    IF Len(o) = 5
                        THEN [action |-> o[1][2], price |-> o[2][2],
                              rate |-> o[3][2], pnl |-> o[4][2], time |-> o[5][2]]
                        ELSE [action |-> o[1][2], price |-> o[2][2],
                              rate |-> o[3][2], time |-> o[4][2]]]]

\* json.load raises JSONDecodeError on a text that does not end with the
\* closing brace of the object (an empty file included)
JSONDecodeError(file) == file # <<>> /\ ~file[1].closed

\* save_state(state): open(STATE_FILE, 'w') truncates the file, json.dump
\* then writes the text piece by piece.  power says how far the process
\* gets: "on" to the end, "off_after_open" no further than the truncation,
\* "off_in_dump" no further than the first members.
save_state_skipped(state, power) == paper_file

save_state(state, power) ==
    IF power = "on" THEN << json_dump(state) >>
    ELSE IF power = "off_after_open" THEN << [members |-> <<>>, closed |-> FALSE] >>
    ELSE << [members |-> SubSeq(json_dump(state).members, 1, 2), closed |-> FALSE] >>

\* balance is kept symbolically: the starting 50.0 and the amounts credited
\* so far
load_state_empty_balance ==
    IF paper_file # <<>> THEN json_load(paper_file[1])
    ELSE [balance |-> [start |-> 0, credits |-> <<>>],
          position |-> "None",
          entry_price |-> 0,
          entry_time |-> NoTime,
          trades |-> <<>>]

load_state ==
    IF paper_file # <<>> THEN json_load(paper_file[1])
    ELSE [balance |-> [start |-> 50, credits |-> <<>>],
          position |-> "None",
          entry_price |-> 0,
          entry_time |-> NoTime,
          trades |-> <<>>]

PaperPnl(state, price) ==
    RSub(Rat((state.entry_price - price) * 100, state.entry_price), FEE)

should_close(pnl, rate) ==
    \/ Abs(rate) < PAPER_EXIT_THRESHOLD
    \/ RLess(TAKE_PROFIT, pnl)
    \/ RLess(pnl, STOP_LOSS)

\* pnl_amount = state['balance'] * 0.3 * (pnl / 100), kept as its three factors
main_pnl_amount(state, pnl) ==
    [balance |-> state.balance, fraction |-> <<3, 10>>, pnl_ratio |-> pnl]

\* the state dict after the open branch of main
open_short_fee_at_open(state, price, rate, now) ==
    [state EXCEPT
        !.balance = [@ EXCEPT !.credits = Append(@, main_pnl_amount(state, RSub(Zero, FEE)))],
        !.position = "SHORT",
        !.entry_price = price,
        !.entry_time = now,
        !.trades = Append(@, [action |-> "OPEN_SHORT", price |-> price,
                              rate |-> rate, time |-> now])]

open_short(state, price, rate, now) ==
    [state EXCEPT
        !.position = "SHORT",
        !.entry_price = price,
        !.entry_time = now,
        !.trades = Append(@, [action |-> "OPEN_SHORT", price |-> price,
                              rate |-> rate, time |-> now])]

\* What the process leaves in paper_action when it saved: the branch, or
\* "KILLED" when it did not get to the end of save_state
Saved(branch, power) == IF power = "on" THEN branch ELSE "KILLED"

\* the close branch of main(): the balance is credited, a CLOSE record is
\* appended and the position fields are reset
close_short(state, price, rate, pnl, now) ==
    [state EXCEPT
        !.balance = [@ EXCEPT !.credits = Append(@, main_pnl_amount(state, pnl))],
        !.trades = Append(@, [action |-> "CLOSE", price |-> price,
                              rate |-> rate, pnl |-> pnl, time |-> now]),
        !.position = "None",
        !.entry_price = 0,
        !.entry_time = NoTime]

\* main() with state the dict load_state() returns at its first line (read
\* only when the file can be loaded), r1_data, r2_data what the two requests
\* come back with, now the clock reading and power how far the process gets
\* in save_state.  An exception leaves main and the loop around it;
\* paper_action then holds its name.
main(state, r1_data, r2_data, now, power) ==
    IF JSONDecodeError(paper_file) THEN
        /\ paper_action' = "JSONDecodeError"
        /\ fetched' = <<>>
        /\ UNCHANGED paper_file
    ELSE
    LET result == get_market(r1_data, r2_data)
    IN
    /\ fetched' = Requests(r1_data, r2_data)
    /\ IF result.ret = "IndexError" THEN
           /\ paper_action' = "IndexError"
           /\ paper_file' = paper_file
       ELSE IF result.ret = "None" THEN
           /\ paper_action' = "SKIP"
           /\ paper_file' = paper_file
       ELSE
       LET price == result.price
           rate == result.rate
       IN
       IF state.position = "None" THEN
           IF rate > PAPER_SHORT_THRESHOLD THEN
               LET opened == open_short(state, price, rate, now) IN
               /\ paper_file' = save_state(opened, power)
               /\ paper_action' = Saved("OPEN_SHORT", power)
           ELSE
               /\ paper_file' = paper_file
               /\ paper_action' = "WAIT"
       ELSE
           LET pnl == PaperPnl(state, price) IN
           IF should_close(pnl, rate) THEN
               LET closed == close_short(state, price, rate, pnl, now) IN
               /\ paper_file' = save_state(closed, power)
               /\ paper_action' = Saved("CLOSE", power)
           ELSE
               /\ paper_file' = paper_file
               /\ paper_action' = "HOLD"

----------------------------------------------------------------------------
(* paper_bot.py, the first version of the paper bot, on the same state file *)

PAPER_BOT_SHORT_THRESHOLD == 5   \* SHORT_THRESHOLD = 0.005

\* get_market() of paper_bot.py: requests.get without retry and outside any
\* try, so a request that fails raises
paper_bot_get_market(r1_data, r2_data) ==
    IF r1_data = <<>> THEN [ret |-> "ConnectionError"]
    ELSE IF r1_data[1].data = <<>> THEN [ret |-> "IndexError"]
    ELSE IF r2_data = <<>> THEN [ret |-> "ConnectionError"]
    ELSE IF r2_data[1].data = <<>> THEN [ret |-> "IndexError"]
    ELSE [ret |-> "tuple", price |-> r1_data[1].data[1].last,
          rate |-> r2_data[1].data[1].fundingRate]

\* main() of paper_bot.py: opens like paper_bot_v2, but on the exit
\* conditions it only prints the advice to close
paper_bot_main(r1_data, r2_data, now, power) ==
    IF JSONDecodeError(paper_file) THEN
        /\ paper_action' = "JSONDecodeError"
        /\ fetched' = <<>>
        /\ UNCHANGED paper_file
    ELSE
    LET state == load_state
        result == paper_bot_get_market(r1_data, r2_data)
    IN
    /\ fetched' = Requests(r1_data, r2_data)
    /\ IF result.ret # "tuple" THEN
           /\ paper_action' = result.ret
           /\ paper_file' = paper_file
       ELSE IF state.position = "None" THEN
           IF result.rate > PAPER_BOT_SHORT_THRESHOLD THEN
               LET opened == open_short(state, result.price, result.rate, now) IN
               /\ paper_file' = save_state(opened, power)
               /\ paper_action' = Saved("OPEN_SHORT", power)
           ELSE
               /\ paper_file' = paper_file
               /\ paper_action' = "WAIT"
       ELSE
           /\ paper_file' = paper_file
           /\ paper_action' = IF should_close(PaperPnl(state, result.price), result.rate)
                                 THEN "SUGGEST_CLOSE" ELSE "HOLD"

----------------------------------------------------------------------------
(* monitor_signals.py *)

LONG_THRESHOLD == -3         \* LONG_THRESHOLD = -0.003
SHORT_THRESHOLD == 3         \* SHORT_THRESHOLD = 0.003
EXIT_THRESHOLD == 1          \* EXIT_THRESHOLD = 0.001

analyze_signal(data, position, entry_price) ==
    LET funding_rate == data.funding_rate
        price == data.price
    IN
    IF position = "None" THEN
        IF funding_rate < LONG_THRESHOLD THEN [action |-> "LONG", entry_price |-> price]
        ELSE IF funding_rate > SHORT_THRESHOLD THEN [action |-> "SHORT", entry_price |-> price]
        ELSE [action |-> "WAIT", entry_price |-> 0]
    ELSE IF position = "LONG" THEN
        LET pnl == PctMove(price, entry_price) IN
        IF Abs(funding_rate) < EXIT_THRESHOLD THEN [action |-> "CLOSE", pnl |-> pnl]
        ELSE IF funding_rate > SHORT_THRESHOLD THEN [action |-> "CLOSE", pnl |-> pnl]
        ELSE IF RLess(pnl, STOP_LOSS) THEN [action |-> "CLOSE", pnl |-> pnl]
        ELSE [action |-> "HOLD", pnl |-> pnl]
    ELSE
        LET pnl == Rat((entry_price - price) * 100, entry_price) IN
        IF Abs(funding_rate) < EXIT_THRESHOLD THEN [action |-> "CLOSE", pnl |-> pnl]
        ELSE IF funding_rate < LONG_THRESHOLD THEN [action |-> "CLOSE", pnl |-> pnl]
        ELSE IF RLess(TAKE_PROFIT, pnl) THEN [action |-> "CLOSE", pnl |-> pnl]
        ELSE IF RLess(pnl, STOP_LOSS) THEN [action |-> "CLOSE", pnl |-> pnl]
        ELSE [action |-> "HOLD", pnl |-> pnl]

\* the position a user following the strategy object would pass to analyze_signal
PositionName(p) == IF p = 0 THEN "None" ELSE IF p = 1 THEN "LONG" ELSE "SHORT"

----------------------------------------------------------------------------
(* trade_manager.py *)

\* load_state of trade_manager: None when paper_state.json is missing
trade_manager_load_state == IF paper_file # <<>> THEN json_load(paper_file[1]) ELSE "None"

\* total_pnl is kept as the list of the amounts added to it
load_history ==
    IF history_file # <<>> THEN history_file[1]
    ELSE [trades |-> <<>>, total_pnl |-> <<>>, win_count |-> 0, loss_count |-> 0]

\* pnl_ratio of close_position: the move from the entry price by side, minus 0.1
pnl_ratio_no_fee(state, close_price) ==
    IF state.position = "SHORT"
        THEN Rat((state.entry_price - close_price) * 100, state.entry_price)
        ELSE PctMove(close_price, state.entry_price)

pnl_ratio(state, close_price) ==
    RSub(IF state.position = "SHORT"
             THEN Rat((state.entry_price - close_price) * 100, state.entry_price)
             ELSE PctMove(close_price, state.entry_price),
         FEE)

\* position_size = balance * 0.3; pnl_amount = position_size * (pnl_ratio / 100),
\* kept as its three factors; the balance is positive, so the amount has the
\* sign of the ratio
pnl_amount_half_size(state, close_price) ==
    [balance |-> state.balance, fraction |-> <<1, 2>>,
     pnl_ratio |-> pnl_ratio(state, close_price)]

pnl_amount(state, close_price) ==
    [balance |-> state.balance, fraction |-> <<3, 10>>,
     pnl_ratio |-> pnl_ratio(state, close_price)]

AmountPositive(amount) == RLess(Zero, amount.pnl_ratio)

\* close_position_history with the ids counted from 0
close_position_history_id_from_zero(state, close_price, close_time) ==
    LET amount == pnl_amount(state, close_price)
        new_balance == [state.balance EXCEPT !.credits = Append(@, amount)]
        history == load_history
        trade_record ==
            [id |-> Len(history.trades),
             type |-> state.position,
             entry_time |-> state.entry_time,
             entry_price |-> state.entry_price,
             close_time |-> close_time,
             close_price |-> close_price,
             pnl_ratio |-> amount.pnl_ratio,
             pnl_amount |-> amount,
             balance_before |-> state.balance,
             balance_after |-> new_balance]
    IN
    [trades |-> Append(history.trades, trade_record),
     total_pnl |-> Append(history.total_pnl, amount),
     win_count |-> history.win_count + (IF AmountPositive(amount) THEN 1 ELSE 0),
     loss_count |-> history.loss_count + (IF AmountPositive(amount) THEN 0 ELSE 1)]

\* What close_position, holding the loaded state, writes to trade_history.json:
\* the history loaded at that moment with the record of this close appended
\* and the totals updated
close_position_history(state, close_price, close_time) ==
    LET amount == pnl_amount(state, close_price)
        new_balance == [state.balance EXCEPT !.credits = Append(@, amount)]
        history == load_history
        trade_record ==
            [id |-> Len(history.trades) + 1,
             type |-> state.position,
             entry_time |-> state.entry_time,
             entry_price |-> state.entry_price,
             close_time |-> close_time,
             close_price |-> close_price,
             pnl_ratio |-> amount.pnl_ratio,
             pnl_amount |-> amount,
             balance_before |-> state.balance,
             balance_after |-> new_balance]
    IN
    [trades |-> Append(history.trades, trade_record),
     total_pnl |-> Append(history.total_pnl, amount),
     win_count |-> history.win_count + (IF AmountPositive(amount) THEN 1 ELSE 0),
     loss_count |-> history.loss_count + (IF AmountPositive(amount) THEN 0 ELSE 1)]

\* What close_position then writes to paper_state.json: the loaded state with
\* the position fields reset and the new balance
close_position_state(state, close_price) ==
    [state EXCEPT
        !.position = "None",
        !.entry_price = 0,
        !.entry_time = NoTime,
        !.balance = [@ EXCEPT !.credits = Append(@, pnl_amount(state, close_price))]]

\* close_position() with close_price the fetched price, close_time the clock
\* reading and confirm the line typed at the prompt
close_position(close_price, close_time, confirm) ==
    IF paper_file = <<>> \/ JSONDecodeError(paper_file) THEN
        UNCHANGED <<paper_file, history_file>>
    ELSE IF trade_manager_load_state.position = "None" THEN
        UNCHANGED <<paper_file, history_file>>
    ELSE IF confirm # "YES" THEN
        UNCHANGED <<paper_file, history_file>>
    ELSE
        LET state == trade_manager_load_state IN
        /\ history_file' = << close_position_history(state, close_price, close_time) >>
        /\ paper_file' = save_state(close_position_state(state, close_price), "on")

----------------------------------------------------------------------------
(* The replay: every sample is handed to the three deciders *)

\* the state before the first sample, the strategy built from one of configs
InitWith(configs) ==
    /\ \E c \in configs :
           strategy = FundingRateStrategy(c.long_threshold, c.short_threshold, c.exit_threshold)
    /\ signal = "HOLD"
    /\ row = [timestamp |-> 0, price |-> 60000, funding_rate |-> 0]
    /\ idx = 0
    /\ trades = <<>>
    /\ total_pnl = Zero
    /\ signal_log = <<>>
    /\ paper_file = <<>>
    /\ paper_action = "WAIT"
    /\ advice = [action |-> "WAIT", entry_price |-> 0]
    /\ history_file = <<>>
    /\ data_file = <<>>
    /\ results = <<>>
    /\ combo = 0
    /\ pc = "idle"
    /\ reports = <<>>
    /\ kind = "input"
    /\ order = <<>>
    /\ call_log = <<>>
    /\ fetched = <<>>
    /\ ProcsIdle

Init == InitWith(Configs)

Replay ==
    /\ idx < MaxRows
    /\ UNCHANGED <<ledger_vars, proc_vars, auto_vars, grid_vars>>
    /\ LET state == load_state IN
       \E s \in Samples(idx + 1) :
        /\ row' = s
        /\ idx' = idx + 1
        /\ test_parameters_row(s)
        /\ main(state, <<Ticker(s.price)>>, <<FundingRate(s.funding_rate)>>, s.timestamp, "on")
        /\ advice' = analyze_signal(s, PositionName(strategy.position), strategy.entry_price)

Next == Replay

Spec == Init /\ [][Next]_vars

----------------------------------------------------------------------------
(* The ledger: the polled cycle and the manual close work on the same        *)
(* paper_state.json; the backtest loop is fed the same samples as the cycle. *)

MaxTicks == 4

LedgerPrices == {59000, 60000, 61140}

\* In units of 1/1000: below the long threshold -3, inside the exit band 1,
\* between the exit band and the short threshold 3, above the short threshold
LedgerRates == {-4, 0, 2, 4}

LedgerSamples(t) ==
    { [timestamp |-> t, price |-> p, funding_rate |-> r] : p \in LedgerPrices, r \in LedgerRates }

\* one cycle of paper_bot_v2 (and one row of the backtest loop) on a fetched sample
Poll ==
    /\ idx < MaxTicks
    /\ LET state == load_state IN
       \E s \in LedgerSamples(idx + 1) :
        /\ row' = s
        /\ idx' = idx + 1
        /\ test_parameters_row(s)
        /\ main(state, <<Ticker(s.price)>>, <<FundingRate(s.funding_rate)>>, s.timestamp, "on")
        /\ advice' = analyze_signal(s, PositionName(strategy.position), strategy.entry_price)
    /\ UNCHANGED <<ledger_vars, proc_vars, auto_vars, grid_vars>>

\* the user runs trade_manager's manual close between two cycles
ManualClose ==
    /\ idx < MaxTicks
    /\ \E p \in LedgerPrices, confirm \in {"YES", "n"} : close_position(p, idx + 1, confirm)
    /\ idx' = idx + 1
    /\ UNCHANGED <<strategy, signal, row, trades, total_pnl, signal_log, paper_action, advice, bot_vars,
                   grid_vars, proc_vars, auto_vars>>

LedgerNext == Poll \/ ManualClose

LedgerSpec == Init /\ [][LedgerNext]_vars

----------------------------------------------------------------------------
(* Properties *)

ExampleConfig ==
    /\ strategy.long_threshold = -300
    /\ strategy.short_threshold = 500
    /\ strategy.exit_threshold = 100

\* pnl of the open position of the strategy object at price p, fee subtracted
PnlWithFee(p) == RSub(calculate_pnl(strategy, p), FEE)

\* C1: from no position, generate_signal returns LONG (position 1, entry price
\* and time taken from the sample) exactly when the rate is below
\* long_threshold, otherwise SHORT (position -1, same entry fields) exactly
\* when the rate is above short_threshold, and HOLD with the object unchanged
\* in every other case, the two thresholds themselves included;
\* analyze_signal called without a position decides the same way against its
\* own thresholds, its neutral answer being called WAIT.
C1_FlatEntry ==
    [][strategy.position = 0 =>
        LET s == row'
            lt == s.funding_rate < strategy.long_threshold
            st == ~lt /\ s.funding_rate > strategy.short_threshold
        IN  /\ (signal' = "LONG") <=> lt
            /\ (signal' = "SHORT") <=> st
            /\ (signal' = "HOLD") <=> (~lt /\ ~st)
            /\ lt => strategy' = [strategy EXCEPT !.position = 1,
                                     !.entry_price = s.price, !.entry_time = s.timestamp]
            /\ st => strategy' = [strategy EXCEPT !.position = -1,
                                     !.entry_price = s.price, !.entry_time = s.timestamp]
            /\ (~lt /\ ~st) => strategy' = strategy
            /\ (advice'.action = "LONG") <=> (s.funding_rate < LONG_THRESHOLD)
            /\ (advice'.action = "SHORT") <=>
                   (s.funding_rate >= LONG_THRESHOLD /\ s.funding_rate > SHORT_THRESHOLD)
            /\ (advice'.action = "WAIT") <=>
                   (s.funding_rate >= LONG_THRESHOLD /\ s.funding_rate <= SHORT_THRESHOLD)
    ]_vars

\* a long opened on the first sample, and a rate equal to a threshold held
C1_Witness ==
    /\ idx = 1
    /\ signal = "LONG"
    /\ strategy.position = 1
    /\ strategy.entry_price = row.price
    /\ strategy.entry_time = row.timestamp

PaperState == load_state

IsOpen(sig) == sig \in {"LONG", "SHORT", "OPEN_SHORT"}

Alternates(log) ==
    \A i \in 1..Len(log) : IF i % 2 = 1 THEN IsOpen(log[i]) ELSE log[i] = "CLOSE"

PaperLog == [i \in 1..Len(PaperState.trades) |-> PaperState.trades[i].action]

\* C4: the non-HOLD signals strictly alternate open, close, open, ...
\* beginning with an open, and opens minus closes is 1 exactly when a position
\* is held and 0 exactly when none is; the same holds of the OPEN_SHORT and
\* CLOSE records of the paper bot's state file.
C4_Alternation ==
    /\ Alternates(signal_log)
    /\ Len(signal_log) % 2 = (IF strategy.position # 0 THEN 1 ELSE 0)
    /\ Len(trades) = (Len(signal_log) + 1) \div 2
    /\ Alternates(PaperLog)
    /\ Len(PaperLog) % 2 = (IF PaperState.position # "None" THEN 1 ELSE 0)

\* an open, a close and a second open
C4_Witness ==
    /\ Len(signal_log) = 3
    /\ strategy.position # 0
    /\ Len(trades) = 2

\* C5: a sample on which a position is closed leaves no position, also when
\* its rate satisfies an entry condition; an open position never changes to
\* the other side in one step, and a close appends nothing to the trades list.
C5_NoCloseAndOpen ==
    [][ /\ strategy.position # 0 /\ strategy'.position # strategy.position =>
            /\ signal' = "CLOSE"
            /\ strategy'.position = 0
        /\ signal' = "CLOSE" =>
            /\ strategy.position # 0
            /\ strategy'.position = 0
            /\ Len(trades') = Len(trades)
            /\ signal_log' = Append(signal_log, "CLOSE")
        /\ paper_action' = "CLOSE" =>
            /\ PaperState.position = "SHORT"
            /\ PaperState'.position = "None"
            /\ Len(PaperState'.trades) = Len(PaperState.trades) + 1
    ]_vars

\* a long closed by a rate above short_threshold, which is the entry condition
\* of a short
C5_Witness ==
    /\ signal = "CLOSE"
    /\ strategy.position = 0
    /\ trades[Len(trades)].type = "LONG"
    /\ row.funding_rate > strategy.short_threshold
    /\ row.funding_rate >= strategy.long_threshold

C7_Claimed ==
    ( /\ strategy.short_threshold = PAPER_SHORT_THRESHOLD
      /\ strategy.exit_threshold = PAPER_EXIT_THRESHOLD ) =>
        /\ PositionName(strategy.position) = PaperState.position
        /\ signal = (IF paper_action = "OPEN_SHORT" THEN "SHORT"
                     ELSE IF paper_action = "WAIT" THEN "HOLD" ELSE paper_action)
        /\ strategy.position # 0 => strategy.entry_price = PaperState.entry_price

\* C8: under the example configuration, the first sample (60000, 0.6) opens a
\* short at 60000 and the second sample (59000, 0.05) closes it by the
\* reversion exit; the completed trade carries pnl (60000-59000)/60000*100 -
\* 0.1 = 47/30, within 0.001 of 1.567, and no position remains.
C8_Example ==
    [][ ( /\ ExampleConfig
          /\ idx = 1
          /\ row.price = 60000 /\ row.funding_rate = 600
          /\ row'.price = 59000 /\ row'.funding_rate = 50 )
        =>  /\ signal = "SHORT"
            /\ strategy.position = -1
            /\ strategy.entry_price = 60000
            /\ trades = << OpenTrade("SHORT", row) >>
            /\ signal' = "CLOSE"
            /\ strategy'.position = 0
            /\ Abs(row'.funding_rate) < strategy.exit_threshold
            /\ Len(trades') = 1
            /\ trades'[1].pnl = <<47, 30>>
            /\ RLess(<<1566, 1000>>, trades'[1].pnl)
            /\ RLess(trades'[1].pnl, <<1568, 1000>>)
            /\ total_pnl' = trades'[1].pnl
    ]_vars

\* the example after its second sample
C8_Witness ==
    /\ ExampleConfig
    /\ idx = 2
    /\ row.price = 59000 /\ row.funding_rate = 50
    /\ signal = "CLOSE"
    /\ Len(trades) = 1
    /\ trades[1].entry_price = 60000 /\ trades[1].entry_funding = 600
    /\ "pnl" \in DOMAIN trades[1]

\* C9 as claimed: under the example configuration, in Short entered at 60000,
\* a sample with rate 1.0 at the unchanged price closes the position.
C9_Claimed ==
    [][ ( /\ ExampleConfig
          /\ strategy.position = -1 /\ strategy.entry_price = 60000
          /\ row'.price = 60000 /\ row'.funding_rate = 1000 )
        => signal' = "CLOSE" /\ strategy'.position = 0
    ]_vars

\* C9 amended: under the example configuration, a sample with rate 1.0 at the
\* unchanged price arriving in Short entered at 60000 fires no exit: HOLD, the
\* short stays open and no trade is completed (the reversal exit of a short is
\* rate < long_threshold); analyze_signal answers HOLD as well.  The rate-reversal stop with pnl -0.1 (fee only) is
\* what the same sample produces in Long entered at 60000, and what a sample
\* with rate -1.0 produces in Short.
C9_Example ==
    [][ ( /\ ExampleConfig
          /\ strategy.position # 0 /\ strategy.entry_price = 60000
          /\ row'.price = 60000 /\ row'.funding_rate \in {1000, -1000} )
        =>  IF (strategy.position = -1) = (row'.funding_rate = 1000)
            THEN /\ signal' = "HOLD"
                 /\ strategy' = strategy
                 /\ trades' = trades
                 /\ total_pnl' = total_pnl
                 /\ advice'.action = "HOLD"
            ELSE /\ signal' = "CLOSE"
                 /\ strategy'.position = 0
                 /\ trades'[Len(trades')].pnl = <<-1, 10>>
    ]_vars

\* the short of the example held through the rate 1.0 sample
C9_Witness ==
    /\ ExampleConfig
    /\ strategy.position = -1 /\ strategy.entry_price = 60000
    /\ row.price = 60000 /\ row.funding_rate = 1000
    /\ strategy.entry_time < row.timestamp
    /\ signal = "HOLD"

\* C10 as claimed: whenever no position is held, the entry fields hold their
\* unset values, in the strategy object and in the paper bot's state.
C10_Claimed ==
    /\ strategy.position = 0 =>
           strategy.entry_price = 0 /\ strategy.entry_time = NoTime
    /\ PaperState.position = "None" =>
           PaperState.entry_price = 0 /\ PaperState.entry_time = NoTime

\* the open trades of the backtest list: records without a pnl
OpenTrades == { i \in 1..Len(trades) : "pnl" \notin DOMAIN trades[i] }

\* the OPEN_SHORT records of a paper log that no CLOSE record follows
InFlight(log) ==
    { i \in 1..Len(log) : /\ log[i].action = "OPEN_SHORT"
                          /\ (i = Len(log) \/ log[i + 1].action # "CLOSE") }

BacktestLogMatches ==
    /\ strategy.position = 0 <=> OpenTrades = {}
    /\ strategy.position # 0 =>
           /\ Cardinality(OpenTrades) = 1
           /\ \A i \in OpenTrades :
                  /\ trades[i].type = PositionName(strategy.position)
                  /\ trades[i].entry_price = strategy.entry_price

PaperLogMatches ==
    LET log == PaperState.trades IN
    /\ PaperState.position = "None" <=> InFlight(log) = {}
    /\ PaperState.position # "None" =>
           /\ Cardinality(InFlight(log)) = 1
           /\ \A i \in InFlight(log) : log[i].price = PaperState.entry_price

\* C11 (as claimed): in every reachable state of the backtest list and of the
\* persisted paper log, the position is flat exactly when the log has no
\* opened-but-unclosed trade, and held exactly when the log has exactly one,
\* with the side and entry price of the position; manual closes included.
C11_Claimed == BacktestLogMatches /\ PaperLogMatches

HasPnl(t) == "pnl" \in DOMAIN t

Completed(log) == SelectSeq(log, HasPnl)

IsPrefix(a, b) == Len(a) <= Len(b) /\ SubSeq(b, 1, Len(a)) = a

HistoryTrades == load_history.trades

\* C12 (as claimed): every step leaves the trade log unchanged or appends to
\* it, and no step changes or removes a completed record.
C12_Claimed ==
    [][ /\ IsPrefix(trades, trades')
        /\ IsPrefix(HistoryTrades, HistoryTrades')
        /\ \A i \in 1..Len(trades) :
               HasPnl(trades[i]) => i <= Len(trades') /\ trades'[i] = trades[i] ]_vars

\* C12 amended: the completed records are append-only.  The list of
\* test_parameters also holds the open trade as its last entry: a step leaves
\* the list unchanged, appends an open record, or (only on CLOSE) completes the
\* open last record in place, keeping its side and entry fields; every other
\* record stays as it is, so a completed record is never changed or removed.
\* The history of trade_manager only grows, by one record that takes its side
\* and entry from the position being closed.
C12_AppendOnly ==
    [][ LET n == Len(trades)
            h == Len(HistoryTrades)
        IN
        /\ \/ trades' = trades
           \/ /\ trades' = Append(trades, trades'[Len(trades')])
              /\ ~HasPnl(trades'[Len(trades')])
              /\ signal' \in {"LONG", "SHORT"}
           \/ /\ signal' = "CLOSE"
              /\ n > 0
              /\ Len(trades') = n
              /\ \A i \in 1..(n - 1) : trades'[i] = trades[i]
              /\ ~HasPnl(trades[n])
              /\ HasPnl(trades'[n])
              /\ "exit_price" \in DOMAIN trades'[n]
              /\ trades'[n].type = trades[n].type
              /\ trades'[n].entry_price = trades[n].entry_price
              /\ trades'[n].entry_time = trades[n].entry_time
        /\ IsPrefix(Completed(trades), Completed(trades'))
        /\ Len(Completed(trades')) <= Len(Completed(trades)) + 1
        /\ IsPrefix(HistoryTrades, HistoryTrades')
        /\ Len(HistoryTrades') <= h + 1
        /\ Len(HistoryTrades') = h + 1 =>
               /\ PaperState.position # "None"
               /\ HistoryTrades'[h + 1].type = PaperState.position
               /\ HistoryTrades'[h + 1].entry_price = PaperState.entry_price
               /\ HistoryTrades'[h + 1].entry_time = PaperState.entry_time ]_vars

\* a completed record with a later record behind it, and a manual close on file
C12_Witness ==
    /\ Len(trades) >= 2
    /\ HasPnl(trades[1])
    /\ Len(HistoryTrades) >= 1

\* the price move from entry to exit in percent of the entry, by side
SideMove(type, entry, exit) ==
    IF type = "LONG" THEN Rat((exit - entry) * 100, entry)
    ELSE Rat((entry - exit) * 100, entry)

RECURSIVE SumExpected(_)
SumExpected(log) ==
    IF log = <<>> THEN Zero
    ELSE LET t == log[Len(log)] IN
         RAdd(SumExpected(SubSeq(log, 1, Len(log) - 1)),
              RSub(SideMove(t.type, t.entry_price, t.exit_price), FEE))

\* C13: every completed record carries the side-adjusted move from its own
\* entry price to its exit price minus the fee 0.1, in the backtest list and
\* in the history of manual closes; an open record carries no pnl, and the
\* running total is the sum over the completed records, so the fee has been
\* taken once per close and never at an open.
C13_Conservation ==
    /\ \A i \in 1..Len(trades) :
           HasPnl(trades[i]) =>
               trades[i].pnl = RSub(SideMove(trades[i].type, trades[i].entry_price,
                                             trades[i].exit_price), FEE)
    /\ total_pnl = SumExpected(Completed(trades))
    /\ \A i \in 1..Len(HistoryTrades) :
           LET t == HistoryTrades[i] IN
           t.pnl_ratio = RSub(SideMove(t.type, t.entry_price, t.close_price), FEE)

\* a backtest trade and a manual close, both completed away from the entry price
C13_Witness ==
    /\ \E i \in 1..Len(trades) :
           HasPnl(trades[i]) /\ trades[i].exit_price # trades[i].entry_price
    /\ \E i \in 1..Len(HistoryTrades) :
           HistoryTrades[i].close_price # HistoryTrades[i].entry_price

----------------------------------------------------------------------------
(* optimize_params.py: grid_search and the test_parameters calls it makes.  *)
(* Funding rates and thresholds of this part are integers in units of       *)
(* 1/10000 (0.0005 is 5), so that every candidate of the grid is an         *)
(* integer; generate_signal only compares rates with thresholds.            *)

MaxData == 3

MaxGridRuns == 2

long_thresholds == <<-50, -30, -10>>     \* [-0.005, -0.003, -0.001]
short_thresholds == <<30, 50, 70>>       \* [0.003, 0.005, 0.007]
exit_thresholds == <<5, 10, 20>>         \* [0.0005, 0.001, 0.002]

\* (price, funding rate) of a csv row: a rate below two of the long
\* candidates, a rate above two of the short candidates at a lower price, and
\* a rate inside two of the exit bands at a higher price
GridRows == { <<60000, -40>>, <<59000, 60>>, <<60600, 8>> }

\* the csv files: rows in file order, the timestamp is the row number
DataFiles ==
    UNION { { [t \in 1..n |-> [timestamp |-> t, price |-> f[t][1], funding_rate |-> f[t][2]]] :
                  f \in [1..n -> GridRows] } : n \in 0..MaxData }

\* how an unstable sort may leave rows with equal keys: in input order or in
\* reverse input order
TieKinds == {"input", "reverse"}

NumCombos == Len(long_thresholds) * Len(short_thresholds) * Len(exit_thresholds)

\* the three lists walked in step, as zip would, instead of their product
product_zip(i) ==
    [long_threshold |-> long_thresholds[((i - 1) % Len(long_thresholds)) + 1],
     short_threshold |-> short_thresholds[((i - 1) % Len(short_thresholds)) + 1],
     exit_threshold |-> exit_thresholds[((i - 1) % Len(exit_thresholds)) + 1]]

\* itertools.product(long_thresholds, short_thresholds, exit_thresholds):
\* the i-th combination, the last factor running fastest
product(i) ==
    LET ne == Len(exit_thresholds)
        ns == Len(short_thresholds)
    IN  [long_threshold |-> long_thresholds[((i - 1) \div (ns * ne)) + 1],
         short_threshold |-> short_thresholds[(((i - 1) \div ne) % ns) + 1],
         exit_threshold |-> exit_thresholds[((i - 1) % ne) + 1]]

ProductOrder == [i \in 1..NumCombos |-> i]

\* the combination evaluated at position k of the loop: the first grid_search
\* takes them in product order, a later one in the order given
Combination(k) == product(IF reports = <<>> THEN k ELSE order[k])

RDiv(a, n) == Rat(a[1], a[2] * n)

IsWin(t) == RLess(Zero, t.pnl)

RECURSIVE MaxPnl(_)
MaxPnl(log) ==
    IF Len(log) = 1 THEN log[1].pnl
    ELSE LET m == MaxPnl(SubSeq(log, 1, Len(log) - 1)) IN
         IF RLess(m, log[Len(log)].pnl) THEN log[Len(log)].pnl ELSE m

RECURSIVE MinPnl(_)
MinPnl(log) ==
    IF Len(log) = 1 THEN log[1].pnl
    ELSE LET m == MinPnl(SubSeq(log, 1, Len(log) - 1)) IN
         IF RLess(log[Len(log)].pnl, m) THEN log[Len(log)].pnl ELSE m

\* the statistics with every record of the list counted, open ones included
test_parameters_stats_count_open(trades_, total_pnl_) ==
    LET completed_trades == Completed(trades_)
        win_trades == SelectSeq(completed_trades, IsWin)
    IN  [total_trades |-> Len(trades_),
         win_rate |-> IF Len(trades_) > 0
                         THEN Rat(Len(win_trades) * 100, Len(trades_)) ELSE Zero,
         total_pnl |-> total_pnl_,
         avg_pnl |-> IF Len(trades_) > 0 THEN RDiv(total_pnl_, Len(trades_)) ELSE Zero,
         max_pnl |-> IF Len(completed_trades) > 0 THEN MaxPnl(completed_trades) ELSE Zero,
         min_pnl |-> IF Len(completed_trades) > 0 THEN MinPnl(completed_trades) ELSE Zero]

\* the dictionary test_parameters returns
test_parameters_stats(trades_, total_pnl_) ==
    LET completed_trades == Completed(trades_)
        win_trades == SelectSeq(completed_trades, IsWin)
        n == Len(completed_trades)
    IN  [total_trades |-> n,
         win_rate |-> IF n > 0 THEN Rat(Len(win_trades) * 100, n) ELSE Zero,
         total_pnl |-> total_pnl_,
         avg_pnl |-> IF n > 0 THEN RDiv(total_pnl_, n) ELSE Zero,
         max_pnl |-> IF n > 0 THEN MaxPnl(completed_trades) ELSE Zero,
         min_pnl |-> IF n > 0 THEN MinPnl(completed_trades) ELSE Zero]

\* row i is placed before row j by df.sort_values('total_pnl', ascending=False)
\* when the installed sort leaves equal keys as kind_ says
Precedes(rows, kind_, i, j) ==
    \/ RLess(rows[j].total_pnl, rows[i].total_pnl)
    \/ /\ rows[i].total_pnl = rows[j].total_pnl
       /\ IF kind_ = "input" THEN i < j ELSE i > j

sort_values(rows, kind_) ==
    [p \in 1..Len(rows) |->
        rows[CHOOSE i \in 1..Len(rows) :
                 Cardinality({ j \in 1..Len(rows) : Precedes(rows, kind_, j, i) }) = p - 1]]

\* test_parameters entered with the thresholds of the previous call's object
\* kept alive: the position and entry of the last call carry over
test_parameters_call_shared_strategy ==
    /\ pc = "product"
    /\ combo < NumCombos
    /\ LET c == Combination(combo + 1) IN
       strategy' = [strategy EXCEPT !.long_threshold = c.long_threshold,
                                    !.short_threshold = c.short_threshold,
                                    !.exit_threshold = c.exit_threshold]
    /\ trades' = <<>>
    /\ total_pnl' = Zero
    /\ signal_log' = <<>>
    /\ idx' = 0
    /\ pc' = "rows"
    /\ UNCHANGED <<signal, row, paper_file, bot_vars, paper_action, advice, ledger_vars, proc_vars, auto_vars, data_file,
                   results, combo, reports, kind, order, call_log>>

\* grid_search calls test_parameters with the next combination: the csv is
\* read, a new strategy object and new locals are made
test_parameters_call ==
    /\ pc = "product"
    /\ combo < NumCombos
    /\ LET c == Combination(combo + 1) IN
       strategy' = FundingRateStrategy(c.long_threshold, c.short_threshold, c.exit_threshold)
    /\ trades' = <<>>
    /\ total_pnl' = Zero
    /\ signal_log' = <<>>
    /\ idx' = 0
    /\ pc' = "rows"
    /\ UNCHANGED <<signal, row, paper_file, bot_vars, paper_action, advice, ledger_vars, proc_vars, auto_vars, data_file,
                   results, combo, reports, kind, order, call_log>>

\* one pass of the loop over df.iterrows()
test_parameters_loop ==
    /\ pc = "rows"
    /\ idx < Len(data_file)
    /\ row' = data_file[idx + 1]
    /\ test_parameters_row(data_file[idx + 1])
    /\ idx' = idx + 1
    /\ UNCHANGED <<paper_file, bot_vars, paper_action, advice, ledger_vars, proc_vars, auto_vars, grid_vars>>

\* test_parameters closing a position still open after the last row, at the
\* price of that row, before it computes the statistics
test_parameters_return_force_close ==
    /\ pc = "rows"
    /\ idx = Len(data_file)
    /\ LET c == Combination(combo + 1)
           n == Len(trades)
           open == n > 0 /\ ~HasPnl(trades[n])
           closed == IF open THEN [trades EXCEPT ![n] = CloseTrade(trades[n], row)] ELSE trades
           total == IF open THEN RAdd(total_pnl, TradePnl(trades[n], row)) ELSE total_pnl
           result == test_parameters_stats(closed, total)
       IN
       /\ trades' = closed
       /\ total_pnl' = total
       /\ results' = Append(results, result @@ c)
       /\ call_log' = Append(call_log, [args |-> c, trades |-> closed, ret |-> result])
    /\ combo' = combo + 1
    /\ pc' = "product"
    /\ UNCHANGED <<strategy, signal, row, idx, signal_log, paper_file, bot_vars,
                   paper_action, advice, ledger_vars, proc_vars, auto_vars, data_file, reports, kind, order>>

\* test_parameters returns its statistics; grid_search adds the thresholds and
\* appends the row to results
test_parameters_return ==
    /\ pc = "rows"
    /\ idx = Len(data_file)
    /\ LET c == Combination(combo + 1)
           result == test_parameters_stats(trades, total_pnl)
       IN
       /\ results' = Append(results, result @@ c)
       /\ call_log' = Append(call_log, [args |-> c, trades |-> trades, ret |-> result])
    /\ combo' = combo + 1
    /\ pc' = "product"
    /\ UNCHANGED <<strategy, signal, row, idx, trades, total_pnl, signal_log, paper_file, bot_vars,
                   paper_action, advice, ledger_vars, proc_vars, auto_vars, data_file, reports, kind, order>>

\* a sort whose order among equal keys is not the same on every run
grid_search_rank_ties_vary ==
    /\ pc = "product"
    /\ combo = NumCombos
    /\ reports' = Append(reports,
                         sort_values(results,
                                     IF reports = <<>> THEN kind
                                     ELSE CHOOSE k \in TieKinds : k # kind))
    /\ pc' = "done"
    /\ UNCHANGED <<strategy, signal, row, idx, trades, total_pnl, signal_log, paper_file, bot_vars,
                   paper_action, advice, ledger_vars, proc_vars, auto_vars, data_file, results, combo, kind, order,
                   call_log>>

\* after the loop: the table is sorted, its first row is reported as best and
\* the sorted table is saved and returned
grid_search_rank ==
    /\ pc = "product"
    /\ combo = NumCombos
    /\ reports' = Append(reports, sort_values(results, kind))
    /\ pc' = "done"
    /\ UNCHANGED <<strategy, signal, row, idx, trades, total_pnl, signal_log, paper_file, bot_vars,
                   paper_action, advice, ledger_vars, proc_vars, auto_vars, data_file, results, combo, kind, order,
                   call_log>>

\* grid_search is run again on the same csv file
grid_search ==
    /\ pc = "done"
    /\ Len(reports) < MaxGridRuns
    /\ results' = <<>>
    /\ combo' = 0
    /\ pc' = "product"
    /\ UNCHANGED <<strategy, signal, row, idx, trades, total_pnl, signal_log, paper_file, bot_vars,
                   paper_action, advice, ledger_vars, proc_vars, auto_vars, data_file, reports, kind, order,
                   call_log>>

GridLocals ==
    /\ strategy = FundingRateStrategy(-30, 50, 10)
    /\ signal = "HOLD"
    /\ row = [timestamp |-> 0, price |-> 60000, funding_rate |-> 0]
    /\ idx = 0
    /\ trades = <<>>
    /\ total_pnl = Zero
    /\ signal_log = <<>>
    /\ paper_file = <<>>
    /\ paper_action = "WAIT"
    /\ advice = [action |-> "WAIT", entry_price |-> 0]
    /\ history_file = <<>>
    /\ data_file \in DataFiles
    /\ results = <<>>
    /\ combo = 0
    /\ pc = "product"
    /\ reports = <<>>
    /\ kind \in TieKinds
    /\ call_log = <<>>
    /\ fetched = <<>>
    /\ ProcsIdle

\* grid_search as written: every run takes the combinations in product order
GridInit == GridLocals /\ order = ProductOrder

\* orders other than the product's in which a caller could run the same
\* combinations: backwards, and starting from the second long candidate
Orders ==
    { [i \in 1..NumCombos |-> NumCombos + 1 - i],
      [i \in 1..NumCombos |->
          ((i - 1 + Len(short_thresholds) * Len(exit_thresholds)) % NumCombos) + 1] }

\* the first run takes the combinations in product order, the runs after it
\* in another order
AnyOrderInit == GridLocals /\ order \in Orders

GridNext ==
    \/ test_parameters_call
    \/ test_parameters_loop
    \/ test_parameters_return
    \/ grid_search_rank
    \/ grid_search

GridSpec == GridInit /\ [][GridNext]_vars

AnyOrderSpec == AnyOrderInit /\ [][GridNext]_vars

----------------------------------------------------------------------------
(* Properties of test_parameters and grid_search *)

LastCall == call_log[Len(call_log)]

\* C14: two test_parameters calls with the same thresholds on the same csv
\* file return the same statistics from the same trades in the same order,
\* whatever calls were made in between; every call starts its loop with a
\* strategy object that holds no position, an empty list and a zero total.
C14_Determinism ==
    /\ \A i \in 1..(Len(call_log) - 1) :
           call_log[i].args = LastCall.args =>
               /\ call_log[i].trades = LastCall.trades
               /\ call_log[i].ret = LastCall.ret
    /\ (pc = "rows" /\ idx = 0) =>
           /\ strategy.position = 0
           /\ trades = <<>>
           /\ total_pnl = Zero

\* a combination run for the second time, with trades, right after a call
\* that ended holding a position
C14_Witness ==
    /\ Len(call_log) > NumCombos + 1
    /\ \E i \in 1..(Len(call_log) - 1) : call_log[i].args = LastCall.args
    /\ Len(LastCall.trades) > 0
    /\ LET before == call_log[Len(call_log) - 1].trades IN
       /\ before # <<>>
       /\ ~HasPnl(before[Len(before)])

RECURSIVE SumPnl(_)
SumPnl(log) ==
    IF log = <<>> THEN Zero
    ELSE RAdd(SumPnl(SubSeq(log, 1, Len(log) - 1)), log[Len(log)].pnl)

Wins(log) == Cardinality({ i \in 1..Len(log) : RLess(Zero, log[i].pnl) })

\* C15: when test_parameters has run out of rows with the strategy still
\* holding a position, the position has not been closed: its record is the
\* last of the list and has no exit and no pnl, the returned number of trades
\* and win rate count only the records before it, and the returned total is
\* the sum over those records, all of which were completed by a row before
\* the last one, so the price of the last row is not in it.
C15_NoForceClose ==
    (pc \in {"product", "done"} /\ call_log # <<>> /\ strategy.position # 0) =>
        LET n == Len(trades)
            before == SubSeq(trades, 1, n - 1)
            ret == LastCall.ret
        IN
        /\ LastCall.trades = trades
        /\ n > 0
        /\ ~HasPnl(trades[n])
        /\ "exit_price" \notin DOMAIN trades[n]
        /\ \A i \in 1..(n - 1) : HasPnl(before[i]) /\ before[i].exit_time < row.timestamp
        /\ ret.total_trades = n - 1
        /\ ret.win_rate = IF n > 1 THEN Rat(Wins(before) * 100, n - 1) ELSE Zero
        /\ ret.total_pnl = SumPnl(before)
        /\ total_pnl = SumPnl(before)

\* a call that returned holding a position opened after an earlier trade was
\* completed
C15_Witness ==
    /\ pc = "product"
    /\ call_log # <<>>
    /\ strategy.position # 0
    /\ Len(trades) = 2
    /\ HasPnl(trades[1])
    /\ row.timestamp = Len(data_file)

\* C16: the dictionary test_parameters returns agrees with its trades list:
\* total_pnl is the sum of pnl over the completed records; total_trades is
\* their number, and win_rate is the share of them with pnl > 0, so that every
\* completed record is either a win (pnl > 0) or one of the total_trades - wins
\* others (pnl <= 0); avg_pnl times the number of completed records is
\* total_pnl, and with no completed record win_rate and avg_pnl are 0.
C16_Aggregates ==
    call_log # <<>> =>
        LET done == Completed(LastCall.trades)
            n == Len(done)
            wins == Cardinality({ i \in 1..n : RLess(Zero, done[i].pnl) })
            others == Cardinality({ i \in 1..n : RLeq(done[i].pnl, Zero) })
            ret == LastCall.ret
        IN
        /\ ret.total_pnl = SumPnl(done)
        /\ ret.total_trades = n
        /\ wins + others = n
        /\ n > 0 => /\ ret.win_rate = Rat(wins * 100, n)
                    /\ Rat(ret.avg_pnl[1] * n, ret.avg_pnl[2]) = ret.total_pnl
        /\ n = 0 => /\ ret.win_rate = Zero
                    /\ ret.avg_pnl = Zero
                    /\ ret.total_pnl = Zero

\* a call that returned with a losing completed trade and an open one, after
\* an earlier call that completed nothing
C16_Witness ==
    /\ call_log # <<>>
    /\ \E i \in 1..Len(LastCall.trades) :
           HasPnl(LastCall.trades[i]) /\ RLess(LastCall.trades[i].pnl, Zero)
    /\ ~HasPnl(LastCall.trades[Len(LastCall.trades)])
    /\ \E i \in 1..Len(call_log) :
           Completed(call_log[i].trades) = <<>> /\ call_log[i].ret.avg_pnl = Zero

Thresholds(r) ==
    [long_threshold |-> r.long_threshold,
     short_threshold |-> r.short_threshold,
     exit_threshold |-> r.exit_threshold]

Range(s) == { s[i] : i \in 1..Len(s) }

AllCombinations ==
    { [long_threshold |-> l, short_threshold |-> s, exit_threshold |-> e] :
          l \in Range(long_thresholds), s \in Range(short_thresholds),
          e \in Range(exit_thresholds) }

RowsWith(table, c) == { i \in 1..Len(table) : Thresholds(table[i]) = c }

\* C17: when the loop of grid_search is over, the results table has
\* |long| * |short| * |exit| rows and every combination of one candidate from
\* each list is the thresholds of exactly one row, in the table as built and in
\* the sorted table.  Every row is appended on return from a test_parameters
\* call whose strategy object was built with that row's thresholds, its
\* statistics are those of the list of trades that call made, and those trades
\* were entered at rows of the one csv file.
C17_FullProduct ==
    /\ (pc = "product" /\ combo = NumCombos) \/ pc = "done" =>
           /\ Len(results) = Len(long_thresholds) * Len(short_thresholds) * Len(exit_thresholds)
           /\ \A c \in AllCombinations : Cardinality(RowsWith(results, c)) = 1
    /\ pc = "done" =>
           /\ Len(reports[Len(reports)]) = Len(results)
           /\ \A c \in AllCombinations : Cardinality(RowsWith(reports[Len(reports)], c)) = 1
           /\ \A i \in 1..Len(results) :
                  \E j \in 1..Len(results) : reports[Len(reports)][j] = results[i]
    /\ (pc = "product" /\ combo > 0) =>
           LET r == results[combo] IN
           /\ Len(results) = combo
           /\ r.long_threshold = strategy.long_threshold
           /\ r.short_threshold = strategy.short_threshold
           /\ r.exit_threshold = strategy.exit_threshold
           /\ LastCall.args = Thresholds(r)
           /\ LastCall.trades = trades
           /\ idx = Len(data_file)
           /\ r = test_parameters_stats(trades, total_pnl) @@ Thresholds(r)
           /\ \A i \in 1..Len(trades) :
                  data_file[trades[i].entry_time].price = trades[i].entry_price

\* a finished table in which some combinations traded and others did not
C17_Witness ==
    /\ pc = "done"
    /\ Len(results) = NumCombos
    /\ \E i, j \in 1..Len(results) :
           results[i].total_trades > 0 /\ results[j].total_trades = 0

\* the number of winning trades behind a row: win_rate / 100 * total_trades
WinCount(r) == Rat(r.win_rate[1] * r.total_trades, r.win_rate[2] * 100)

\* the place of a row's thresholds in the product
InputPosition(r) == CHOOSE i \in 1..NumCombos : product(i) = Thresholds(r)

\* C18 (as claimed): the sorted table is in descending order of total_pnl,
\* rows with equal total_pnl have the one with more wins first, and rows equal
\* on both are in the order of the product.
C18_Claimed ==
    pc = "done" =>
        LET table == reports[Len(reports)] IN
        \A p, q \in 1..Len(table) :
            p < q =>
                \/ RLess(table[q].total_pnl, table[p].total_pnl)
                \/ /\ table[p].total_pnl = table[q].total_pnl
                   /\ RLess(WinCount(table[q]), WinCount(table[p]))
                \/ /\ table[p].total_pnl = table[q].total_pnl
                   /\ WinCount(table[p]) = WinCount(table[q])
                   /\ InputPosition(table[p]) < InputPosition(table[q])

\* the row grid_search reports as best: df.iloc[0]
best(table) == table[1]

SameResultPerCombination ==
    \A i \in 1..(Len(call_log) - 1) :
        call_log[i].args = LastCall.args =>
            call_log[i].trades = LastCall.trades /\ call_log[i].ret = LastCall.ret

----------------------------------------------------------------------------
(* Thresholds of any kind: test_parameters and FundingRateStrategy take the *)
(* three numbers as they are given                                          *)

\* In units of 1/1000: the long threshold above the short one, and equal to it
InvertedConfigs ==
    { [long_threshold |-> 3, short_threshold |-> -3, exit_threshold |-> 1],
      [long_threshold |-> 3, short_threshold |-> 3,  exit_threshold |-> 1] }

AnyConfigInit == InitWith(InvertedConfigs)

\* one row of the loop of test_parameters
Row ==
    /\ idx < MaxRows
    /\ \E s \in LedgerSamples(idx + 1) :
        /\ row' = s
        /\ idx' = idx + 1
        /\ test_parameters_row(s)
    /\ UNCHANGED <<paper_file, paper_action, advice, ledger_vars, proc_vars, auto_vars, grid_vars, bot_vars>>

AnyConfigNext == Row

AnyConfigSpec == AnyConfigInit /\ [][AnyConfigNext]_vars

----------------------------------------------------------------------------
(* generate_signal as the def statement defines it *)

\* The body of the def ends with line 73: lines 75-90 stand at column 0, where
\* the parser rejects the elif (the file does not compile as it is).  The def
\* has the branches for position 0 and 1; a call with position -1 runs past
\* both and returns None.
generate_signal_def(self, funding_rate, price, timestamp) ==
    IF self.position \in {0, 1}
        THEN generate_signal(self, funding_rate, price, timestamp)
        ELSE [self |-> self, ret |-> "None"]

\* the call of the method in the loop of test_parameters
DefRow ==
    /\ idx < MaxRows
    /\ \E s \in LedgerSamples(idx + 1) :
        LET r == generate_signal_def(strategy, s.funding_rate, s.price, s.timestamp) IN
        /\ row' = s
        /\ idx' = idx + 1
        /\ strategy' = r.self
        /\ signal' = r.ret
    /\ UNCHANGED <<trades, total_pnl, signal_log, paper_file, paper_action, advice,
                   ledger_vars, proc_vars, auto_vars, grid_vars, bot_vars>>

DefNext == DefRow

DefSpec == Init /\ [][DefNext]_vars

----------------------------------------------------------------------------
(* The paper bots as processes: failed requests, error bodies, power cuts *)

MaxCycles == 4

BotPrices == {59000, 60000}

\* In units of 1/1000: inside the exit band, above the short threshold of
\* paper_bot_v2 (3), above the short threshold of paper_bot (5)
BotRates == {0, 4, 6}

TickerAnswers == {<<>>, <<ErrorBody>>} \cup { <<Ticker(p)>> : p \in BotPrices }

FundingRateAnswers == {<<>>, <<ErrorBody>>} \cup { <<FundingRate(r)>> : r \in BotRates }

Powers == {"on", "off_after_open", "off_in_dump"}

\* paper_action of a process that is gone: the exception that left the loop
\* (only KeyboardInterrupt is caught around it), or the power cut
Stopped == {"JSONDecodeError", "IndexError", "ConnectionError", "KILLED"}

\* one pass of the while loop of paper_bot_v2.py
Cycle ==
    /\ idx < MaxCycles
    /\ paper_action \notin Stopped
    /\ \E r1_data \in TickerAnswers, r2_data \in FundingRateAnswers, power \in Powers :
           main(load_state, r1_data, r2_data, idx + 1, power)
    /\ idx' = idx + 1
    /\ UNCHANGED <<strategy, signal, row, trades, total_pnl, signal_log, advice,
                   ledger_vars, proc_vars, auto_vars, grid_vars>>

\* one pass of the while loop of paper_bot.py
PaperBotCycle ==
    /\ idx < MaxCycles
    /\ paper_action \notin Stopped
    /\ \E r1_data \in TickerAnswers, r2_data \in FundingRateAnswers, power \in Powers :
           paper_bot_main(r1_data, r2_data, idx + 1, power)
    /\ idx' = idx + 1
    /\ UNCHANGED <<strategy, signal, row, trades, total_pnl, signal_log, advice,
                   ledger_vars, proc_vars, auto_vars, grid_vars>>

\* the user starts a bot again after its process is gone
Restart ==
    /\ paper_action \in Stopped
    /\ paper_action' = "START"
    /\ UNCHANGED <<strategy, signal, row, idx, trades, total_pnl, signal_log, paper_file,
                   advice, ledger_vars, proc_vars, auto_vars, grid_vars, bot_vars>>

BotNext == Cycle \/ PaperBotCycle \/ Restart

BotSpec == Init /\ [][BotNext]_vars

----------------------------------------------------------------------------
(* test_parameters on csv files whose rows are in any order *)

\* Rows a feed can have left in the file: a sample above the short threshold
\* and a sample inside the exit band (rates in units of 1/1000), each under
\* either of two timestamps
FileRows ==
    { [timestamp |-> t, price |-> r[1], funding_rate |-> r[2]] :
          t \in 1..2, r \in { <<60000, 6>>, <<59000, 0>> } }

AnyFiles == UNION { [1..n -> FileRows] : n \in 0..MaxData }

\* the files with the rows of f in another order (or the same)
Reorderings(f) ==
    { [i \in 1..Len(f) |-> f[p[i]]] : p \in Permutations(1..Len(f)) }

\* test_parameters(data_file) with its default thresholds, before its loop
FileInit ==
    /\ strategy = FundingRateStrategy(-3, 5, 1)
    /\ signal = "HOLD"
    /\ row = [timestamp |-> 0, price |-> 60000, funding_rate |-> 0]
    /\ idx = 0
    /\ trades = <<>>
    /\ total_pnl = Zero
    /\ signal_log = <<>>
    /\ paper_file = <<>>
    /\ paper_action = "WAIT"
    /\ advice = [action |-> "WAIT", entry_price |-> 0]
    /\ history_file = <<>>
    /\ data_file \in AnyFiles
    /\ results = <<>>
    /\ combo = 0
    /\ pc = "rows"
    /\ reports = <<>>
    /\ kind = "input"
    /\ order = <<>>
    /\ call_log = <<>>
    /\ fetched = <<>>
    /\ ProcsIdle

\* test_parameters returns its statistics to a caller that keeps them
test_parameters_result ==
    /\ pc = "rows"
    /\ idx = Len(data_file)
    /\ call_log' = Append(call_log, [args |-> data_file, trades |-> trades,
                                     ret |-> test_parameters_stats(trades, total_pnl)])
    /\ pc' = "done"
    /\ UNCHANGED <<strategy, signal, row, idx, trades, total_pnl, signal_log, paper_file,
                   paper_action, advice, ledger_vars, proc_vars, auto_vars, data_file, results, combo, reports,
                   kind, order, bot_vars>>

\* test_parameters is called again, on a file with the same rows reordered
test_parameters_again ==
    /\ pc = "done"
    /\ Len(call_log) < MaxGridRuns
    /\ data_file' \in Reorderings(data_file)
    /\ strategy' = FundingRateStrategy(-3, 5, 1)
    /\ trades' = <<>>
    /\ total_pnl' = Zero
    /\ idx' = 0
    /\ pc' = "rows"
    /\ UNCHANGED <<signal, row, signal_log, paper_file, paper_action, advice, ledger_vars, proc_vars, auto_vars,
                   results, combo, reports, kind, order, call_log, bot_vars>>

FileNext == test_parameters_loop \/ test_parameters_result \/ test_parameters_again

FileSpec == FileInit /\ [][FileNext]_vars

----------------------------------------------------------------------------
(* The ledger: closing, opening, holding, saving and loading *)

ClosedBy(old, new) == old.position # "None" /\ new.position = "None"

\* The amount a close of the position of state old at price exit has to credit
CloseAmount(old, exit) ==
    [balance |-> old.balance, fraction |-> <<3, 10>>,
     pnl_ratio |-> RSub(SideMove(old.position, old.entry_price, exit), FEE)]

\* C21: every close, by a cycle of the paper bot or by the manual close of
\* trade_manager, credits the balance with exactly one amount, 30% of the
\* balance before the close times the pnl percentage / 100, appends one
\* record for the closed position (the bot to the trades of the state file,
\* trade_manager to its history file) and leaves no position and no entry
\* fields; no step that is not a close changes the balance.
C21_Close ==
    [][ LET old == load_state
            new == load_state'
            history == HistoryTrades'
            by_bot == Len(new.trades) = Len(old.trades) + 1
            exit == IF by_bot THEN new.trades[Len(new.trades)].price
                    ELSE history[Len(history)].close_price
            amount == CloseAmount(old, exit)
        IN
        IF ClosedBy(old, new) THEN
            /\ new.balance = [old.balance EXCEPT !.credits = Append(@, amount)]
            /\ new.entry_price = 0
            /\ new.entry_time = NoTime
            /\ \/ /\ by_bot
                  /\ SubSeq(new.trades, 1, Len(old.trades)) = old.trades
                  /\ new.trades[Len(new.trades)].action = "CLOSE"
                  /\ new.trades[Len(new.trades)].pnl = amount.pnl_ratio
                  /\ history = HistoryTrades
               \/ /\ new.trades = old.trades
                  /\ Len(history) = Len(HistoryTrades) + 1
                  /\ SubSeq(history, 1, Len(HistoryTrades)) = HistoryTrades
                  /\ history[Len(history)].type = old.position
                  /\ history[Len(history)].entry_price = old.entry_price
                  /\ history[Len(history)].pnl_amount = amount
                  /\ history[Len(history)].balance_before = old.balance
                  /\ history[Len(history)].balance_after = new.balance
        ELSE new.balance = old.balance
      ]_vars

\* both close paths have credited the balance
C21_Witness ==
    /\ Len(load_state.balance.credits) = 2
    /\ HistoryTrades # <<>>
    /\ \E i \in 1..Len(load_state.trades) : load_state.trades[i].action = "CLOSE"

OpenedBy(old, new) == old.position = "None" /\ new.position # "None"

\* a step that is a cycle of the paper bot ending in one of the given branches
CycleEnds(branches) == idx' = idx + 1 /\ row'.timestamp = idx' /\ paper_action' \in branches

\* C22 (as claimed): an open changes only the position fields, the balance
\* stays and nothing is appended to the trade log; a hold changes nothing,
\* the state file included.
C22_Claimed ==
    [][ LET old == load_state
            new == load_state'
        IN
        /\ OpenedBy(old, new) =>
               /\ new.balance = old.balance
               /\ new.trades = old.trades
               /\ HistoryTrades' = HistoryTrades
        /\ CycleEnds({"HOLD"}) => paper_file' = paper_file /\ history_file' = history_file
      ]_vars

\* C22: an open sets position, entry price and entry time, leaves the balance
\* as it was and appends one OPEN_SHORT record with the price, the rate and
\* the time of the open to the trades of the state file, which is saved; the
\* history file is not touched.  A cycle that holds or waits changes nothing:
\* the state file is not rewritten (not created when it is missing) and the
\* history file stays.
C22_OpenHoldFrame ==
    [][ LET old == load_state
            new == load_state'
        IN
        /\ OpenedBy(old, new) =>
               /\ new.balance = old.balance
               /\ new.position = "SHORT"
               /\ new.entry_price = row'.price
               /\ new.entry_time = idx'
               /\ new.trades = Append(old.trades,
                                      [action |-> "OPEN_SHORT", price |-> row'.price,
                                       rate |-> row'.funding_rate, time |-> idx'])
               /\ paper_file' = << json_dump(new) >>
               /\ history_file' = history_file
        /\ CycleEnds({"HOLD", "WAIT"}) =>
               paper_file' = paper_file /\ history_file' = history_file
      ]_vars

\* a position was opened, a cycle held it, and the log has the record of the open
C22_Witness ==
    /\ paper_action = "HOLD"
    /\ row.timestamp = idx
    /\ load_state.position = "SHORT"
    /\ load_state.trades[Len(load_state.trades)].action = "OPEN_SHORT"
    /\ load_state.entry_time < idx

\* the dicts the next cycle hands to save_state, over the samples it can get
SavedNext ==
    LET state == load_state IN
    IF state.position = "None"
        THEN { open_short(state, s.price, s.funding_rate, s.timestamp) :
                   s \in LedgerSamples(idx + 1) }
        ELSE { close_short(state, s.price, s.funding_rate, PaperPnl(state, s.price),
                           s.timestamp) : s \in LedgerSamples(idx + 1) }

Branches == {"OPEN_SHORT", "WAIT", "CLOSE", "HOLD", "SKIP", "SUGGEST_CLOSE"}

\* C24: at the end of every cycle of paper_bot_v2 and of paper_bot the state
\* file is complete and loading it gives the state dict the cycle ended with
\* (the default state when there is no file): a process started at that
\* point resumes with the same balance, position, entry fields and trades.
C24_FileIsState ==
    [][ ((Cycle \/ PaperBotCycle) /\ paper_action' \in Branches) =>
            LET state == load_state
                price == fetched'[1][1].data[1].last
                rate == fetched'[2][1].data[1].fundingRate
            IN
            /\ ~JSONDecodeError(paper_file')
            /\ load_state' =
                   IF paper_action' = "OPEN_SHORT"
                       THEN open_short(state, price, rate, idx')
                   ELSE IF paper_action' = "CLOSE"
                       THEN close_short(state, price, rate, PaperPnl(state, price), idx')
                   ELSE state
      ]_vars

\* a cycle has just closed a position and another has opened one before
C24_Witness ==
    /\ paper_action = "CLOSE"
    /\ load_state.balance.credits # <<>>
    /\ load_state.position = "None"
    /\ Len(load_state.trades) = 2

\* C25 (as claimed): whatever happens during save_state, the state file is
\* afterwards the complete old text or the complete new text, so it can
\* always be loaded.
C25_Claimed == ~JSONDecodeError(paper_file)

\* the two requests of the last cycle, when both were made
FetchFailed == fetched # <<>> /\ (fetched[1] = <<>> \/ fetched[Len(fetched)] = <<>>)

FetchedSample ==
    /\ Len(fetched) = 2
    /\ fetched[1] # <<>> /\ fetched[1][1].data # <<>>
    /\ fetched[2] # <<>> /\ fetched[2][1].data # <<>>

\* C26: a cycle of paper_bot_v2 in which the price or the rate request fails
\* (fetch_with_retry returned None) decides nothing and leaves the state
\* dict, the state file and the history file as they were; the loop is then
\* still running, and a cycle after it that gets both values decides from
\* the unchanged state as main does: flat, it opens above the short threshold
\* and waits otherwise; holding, it closes exactly on should_close.
C26_SkipCycle ==
    [][ /\ (Cycle /\ FetchFailed') =>
               /\ paper_action' = "SKIP"
               /\ paper_file' = paper_file
               /\ load_state' = load_state
               /\ history_file' = history_file
        /\ (paper_action = "SKIP" /\ Cycle /\ FetchedSample') =>
               LET old == load_state
                   price == fetched'[1][1].data[1].last
                   rate == fetched'[2][1].data[1].fundingRate
               IN
               /\ paper_action' \in {"OPEN_SHORT", "WAIT", "CLOSE", "HOLD", "KILLED"}
               /\ IF paper_action' = "KILLED"
                      THEN IF old.position = "None" THEN rate > PAPER_SHORT_THRESHOLD
                           ELSE should_close(PaperPnl(old, price), rate)
                  ELSE IF old.position = "None"
                      THEN load_state' = (IF rate > PAPER_SHORT_THRESHOLD
                                              THEN open_short(old, price, rate, idx')
                                              ELSE old)
                      ELSE (load_state'.position = "None")
                               <=> should_close(PaperPnl(old, price), rate)
      ]_vars

\* a position is held, the rate request of the last cycle failed and the
\* cycle was skipped
C26_Witness ==
    /\ paper_action = "SKIP"
    /\ Len(fetched) = 2 /\ fetched[2] = <<>>
    /\ load_state.position = "SHORT"

\* C27 (as claimed): a cycle that gets a malformed body leaves the position
\* alone and does not end the loop.
C27_Claimed ==
    ~ /\ fetched # <<>>
      /\ fetched[Len(fetched)] = <<ErrorBody>>
      /\ paper_action \in Stopped

----------------------------------------------------------------------------
(* Configuration *)

\* C28 (as claimed): no row is ever handed to a strategy whose long threshold
\* is not below its short threshold.
C28_Claimed == idx > 0 => strategy.long_threshold < strategy.short_threshold

----------------------------------------------------------------------------
(* Totality *)

\* C29 (as claimed): every call of the step returns exactly one of the
\* actions and leaves a well-defined state.
C29_Claimed ==
    idx > 0 =>
        /\ signal \in {"LONG", "SHORT", "CLOSE", "HOLD"}
        /\ strategy.position \in {-1, 0, 1}

----------------------------------------------------------------------------
(* Replay order *)

SameSamples(f, g) == { f[i] : i \in 1..Len(f) } = { g[i] : i \in 1..Len(g) }

\* the rows read so far came in ascending order, no timestamp twice
ReadAscending ==
    \A i, j \in 1..idx : i < j => data_file[i].timestamp < data_file[j].timestamp

\* calls on files with the same set of samples returned the same statistics
SameSamplesSameResult ==
    \A a, b \in 1..Len(call_log) :
        SameSamples(call_log[a].args, call_log[b].args) => call_log[a].ret = call_log[b].ret

\* C30 (as claimed): the rows are replayed in ascending timestamp order with
\* no timestamp twice, whatever the file looks like, and two files with the
\* same set of samples give the same result.
C30_Claimed == ReadAscending /\ SameSamplesSameResult

----------------------------------------------------------------------------
(* fetch_with_retry of paper_bot_v2.py and of okx_crawler_v2.py *)

MAX_RETRIES == 3            \* paper_bot_v2.py
RETRY_DELAY == 5

CRAWLER_MAX_RETRIES == 5    \* okx_crawler_v2.py
CRAWLER_RETRY_DELAY == 10

MaxCalls == 2

Modules == {"paper_bot_v2", "okx_crawler_v2"}

DefaultRetries(module) == IF module = "paper_bot_v2" THEN MAX_RETRIES ELSE CRAWLER_MAX_RETRIES

Delay(module) == IF module = "paper_bot_v2" THEN RETRY_DELAY ELSE CRAWLER_RETRY_DELAY

\* What the try body (requests.get with its timeout, raise_for_status,
\* response.json()) ends with: the parsed body, a RequestException (timeout,
\* connection error, HTTP error status), its subclass SSLError, or an
\* exception of another class
Outcomes == {"json", "RequestException", "SSLError", "Exception"}

Transient == {"RequestException", "SSLError"}

\* the call: the parameters are bound and the for statement takes the first
\* value of range(retries), or falls through to the final return None
fetch_with_retry_call ==
    /\ fetch.pc = "idle"
    /\ fetch.calls < MaxCalls
    /\ \E module \in Modules :
       \E retries \in {0, 1, DefaultRetries(module)} :
           fetch' = [fetch EXCEPT !.module = module, !.retries = retries, !.attempt = 0,
                                  !.log = <<>>, !.slept = 0, !.ret = "None",
                                  !.pc = IF retries > 0 THEN "request" ELSE "returned"]
    /\ UNCHANGED <<strategy, signal, row, idx, trades, total_pnl, signal_log, paper_file,
                   paper_action, advice, ledger_vars, grid_vars, bot_vars, bot_proc, tm_proc, auto_vars>>

\* one pass of the loop body up to the sleep, which sleeps after the last
\* failed attempt too
fetch_with_retry_attempt_sleep_always ==
    /\ fetch.pc = "request"
    /\ \E outcome \in Outcomes :
           fetch' = [fetch EXCEPT
               !.log = Append(@, outcome),
               !.ret = IF outcome = "json" THEN "json" ELSE "None",
               !.pc = IF outcome = "json" THEN "returned"
                      ELSE IF outcome \in Transient
                          THEN (IF fetch.attempt < fetch.retries THEN "sleep" ELSE "returned")
                      ELSE IF fetch.module = "okx_crawler_v2" THEN "returned"
                      ELSE "raised"]
    /\ UNCHANGED <<strategy, signal, row, idx, trades, total_pnl, signal_log, paper_file,
                   paper_action, advice, ledger_vars, grid_vars, bot_vars, bot_proc, tm_proc, auto_vars>>

\* one pass of the loop body up to the sleep: the try and the except clauses.
\* An exception that is no RequestException leaves paper_bot_v2's function
\* and is answered with return None by okx_crawler_v2's last clause.
fetch_with_retry_attempt ==
    /\ fetch.pc = "request"
    /\ \E outcome \in Outcomes :
           fetch' = [fetch EXCEPT
               !.log = Append(@, outcome),
               !.ret = IF outcome = "json" THEN "json" ELSE "None",
               !.pc = IF outcome = "json" THEN "returned"
                      ELSE IF outcome \in Transient
                          THEN (IF fetch.attempt < fetch.retries - 1 THEN "sleep" ELSE "returned")
                      ELSE IF fetch.module = "okx_crawler_v2" THEN "returned"
                      ELSE "raised"]
    /\ UNCHANGED <<strategy, signal, row, idx, trades, total_pnl, signal_log, paper_file,
                   paper_action, advice, ledger_vars, grid_vars, bot_vars, bot_proc, tm_proc, auto_vars>>

\* time.sleep(RETRY_DELAY) returns and the for statement takes the next value
fetch_with_retry_sleep ==
    /\ fetch.pc = "sleep"
    /\ fetch' = [fetch EXCEPT !.slept = @ + Delay(fetch.module),
                              !.attempt = @ + 1,
                              !.pc = "request"]
    /\ UNCHANGED <<strategy, signal, row, idx, trades, total_pnl, signal_log, paper_file,
                   paper_action, advice, ledger_vars, grid_vars, bot_vars, bot_proc, tm_proc, auto_vars>>

\* the caller has the value (or the exception) and goes on
fetch_with_retry_return ==
    /\ fetch.pc \in {"returned", "raised"}
    /\ fetch' = [fetch EXCEPT !.pc = "idle", !.calls = @ + 1]
    /\ UNCHANGED <<strategy, signal, row, idx, trades, total_pnl, signal_log, paper_file,
                   paper_action, advice, ledger_vars, grid_vars, bot_vars, bot_proc, tm_proc, auto_vars>>

FetchNext ==
    \/ fetch_with_retry_call
    \/ fetch_with_retry_attempt
    \/ fetch_with_retry_sleep
    \/ fetch_with_retry_return

FetchSpec == Init /\ [][FetchNext]_vars

\* requests.get is called with a timeout and time.sleep returns after its
\* delay, so a started attempt ends and a started sleep ends
FetchLiveSpec ==
    FetchSpec /\ WF_vars(fetch_with_retry_attempt) /\ WF_vars(fetch_with_retry_sleep)

----------------------------------------------------------------------------
(* backtest_strategy: the pnl it reports at a CLOSE *)

\* pnl = strategy.calculate_pnl(row['price']), evaluated after generate_signal
\* has returned for the row, on the strategy object as the call left it
backtest_strategy_pnl == calculate_pnl(strategy, row.price)

----------------------------------------------------------------------------
(* paper_bot_v2 and trade_manager as two processes on the same files.  Each *)
(* step is one process between two of its accesses to the files; nothing in *)
(* the code locks a file.                                                   *)

MaxSteps == 8

RacePrices == {59000, 60000}

\* above the short threshold of paper_bot_v2, and inside its exit band
RaceRates == {4, 0}

\* main(), line 76: state = load_state()
bot_load ==
    /\ idx < MaxSteps
    /\ bot_proc.pc = "idle"
    /\ bot_proc' = [pc |-> "loaded", state |-> load_state]
    /\ idx' = idx + 1
    /\ UNCHANGED <<strategy, signal, row, trades, total_pnl, signal_log, paper_file, paper_action,
                   advice, ledger_vars, grid_vars, bot_vars, fetch, tm_proc, auto_vars>>

\* main(), lines 78-159: the requests, the decision on the dict loaded at
\* line 76 and, in the open and close branches, save_state
bot_decide ==
    /\ idx < MaxSteps
    /\ bot_proc.pc = "loaded"
    /\ \E p \in RacePrices, r \in RaceRates :
           /\ row' = [timestamp |-> idx + 1, price |-> p, funding_rate |-> r]
           /\ main(bot_proc.state, <<Ticker(p)>>, <<FundingRate(r)>>, idx + 1, "on")
    /\ bot_proc' = NotRunning
    /\ idx' = idx + 1
    /\ UNCHANGED <<strategy, signal, trades, total_pnl, signal_log, advice, ledger_vars,
                   grid_vars, fetch, tm_proc, auto_vars>>

\* close_position(), lines 101-105: state = load_state(), and the return when
\* there is no file or no position
tm_load ==
    /\ idx < MaxSteps
    /\ tm_proc.pc = "idle"
    /\ tm_proc' = IF paper_file = <<>> THEN NotRunning
                  ELSE IF trade_manager_load_state.position = "None" THEN NotRunning
                  ELSE [pc |-> "prompt", state |-> trade_manager_load_state]
    /\ idx' = idx + 1
    /\ UNCHANGED <<strategy, signal, row, trades, total_pnl, signal_log, paper_file, paper_action,
                   advice, ledger_vars, grid_vars, bot_vars, fetch, bot_proc, auto_vars>>

\* close_position(), lines 108-159: the prompt is answered; on YES the price
\* is fetched, the history is loaded, extended and saved
tm_save_history ==
    /\ idx < MaxSteps
    /\ tm_proc.pc = "prompt"
    /\ \E confirm \in {"YES", "n"}, close_price \in RacePrices :
           IF confirm # "YES" THEN
               /\ tm_proc' = NotRunning
               /\ history_file' = history_file
           ELSE
               /\ tm_proc' = [pc |-> "history_saved", state |-> tm_proc.state,
                              close_price |-> close_price]
               /\ history_file' = << close_position_history(tm_proc.state, close_price, idx + 1) >>
    /\ idx' = idx + 1
    /\ UNCHANGED <<strategy, signal, row, trades, total_pnl, signal_log, paper_file, paper_action,
                   advice, grid_vars, bot_vars, fetch, bot_proc, auto_vars>>

\* close_position(), lines 162-167: the dict loaded at line 101 is reset and
\* saved
tm_save_state ==
    /\ idx < MaxSteps
    /\ tm_proc.pc = "history_saved"
    /\ paper_file' = save_state(close_position_state(tm_proc.state, tm_proc.close_price), "on")
    /\ tm_proc' = NotRunning
    /\ idx' = idx + 1
    /\ UNCHANGED <<strategy, signal, row, trades, total_pnl, signal_log, paper_action,
                   advice, ledger_vars, grid_vars, bot_vars, fetch, bot_proc, auto_vars>>

\* the trade_manager process ends between save_history and save_state
\* (killed, or the machine stops); its locals are gone
tm_crash ==
    /\ idx < MaxSteps
    /\ tm_proc.pc = "history_saved"
    /\ tm_proc' = NotRunning
    /\ idx' = idx + 1
    /\ UNCHANGED <<strategy, signal, row, trades, total_pnl, signal_log, paper_file, paper_action,
                   advice, ledger_vars, grid_vars, bot_vars, fetch, bot_proc, auto_vars>>

RaceNext == bot_load \/ bot_decide \/ tm_load \/ tm_save_history \/ tm_save_state

RaceSpec == Init /\ [][RaceNext]_vars

\* trade_manager alone, run again and again on a state file in which the bot
\* has opened a short, with the crash between its two writes
CrashInit ==
    /\ strategy = FundingRateStrategy(-3, 3, 1)
    /\ signal = "HOLD"
    /\ row = [timestamp |-> 0, price |-> 60000, funding_rate |-> 4]
    /\ idx = 0
    /\ trades = <<>>
    /\ total_pnl = Zero
    /\ signal_log = <<>>
    /\ \E p \in RacePrices :
           paper_file = save_state(open_short([balance |-> [start |-> 50, credits |-> <<>>],
                                               position |-> "None",
                                               entry_price |-> 0,
                                               entry_time |-> NoTime,
                                               trades |-> <<>>], p, 4, 0), "on")
    /\ paper_action = "OPEN_SHORT"
    /\ advice = [action |-> "WAIT", entry_price |-> 0]
    /\ history_file = <<>>
    /\ data_file = <<>>
    /\ results = <<>>
    /\ combo = 0
    /\ pc = "idle"
    /\ reports = <<>>
    /\ kind = "input"
    /\ order = <<>>
    /\ call_log = <<>>
    /\ fetched = <<>>
    /\ ProcsIdle

CrashNext == tm_load \/ tm_save_history \/ tm_save_state \/ tm_crash

CrashSpec == CrashInit /\ [][CrashNext]_vars

----------------------------------------------------------------------------
(* AutoTradingBot and the exchange account, okx_trading_bot.py *)

\* strategy_params of __init__, lines 211-217.  funding_rate is the rate of
\* the exchange times 100 (line 241); here in units of 1/1000, and the pnl
\* ratios in units of 1/10.
AutoParams ==
    [long_threshold |-> -3, short_threshold |-> 5, exit_threshold |-> 1,
     stop_loss |-> -20, take_profit |-> 15]

MaxRuns == 4

\* below long_threshold, inside the exit band, between the band and the
\* short threshold, above short_threshold
AutoRates == {-4, 0, 2, 6}

AutoPrices == {60000}

\* uplRatio * 100 of the position: below stop_loss, between, above take_profit
PnlRatios == {-30, 0, 20}

\* availBal of the account
Balances == {100, 400}

\* What a request can come to.  "ok": the exchange did it and answered with
\* code '0'.  "failed": the exchange did nothing, or refused; _request
\* returns None or a body with another code.  "lost": the exchange did it
\* and the answer did not arrive within the timeout of lines 79-81;
\* _request returns None from its except clause, lines 86-88.
Answers == {"ok", "failed"}

OrderAnswers == {"ok", "failed", "lost"}

\* get_market_data(), lines 224-249: <<>> for None, <<dict>> otherwise
MarketData(now) ==
    {<<>>} \cup { << [price |-> p, funding_rate |-> r, timestamp |-> now] >> :
                   p \in AutoPrices, r \in AutoRates }

\* everything the requests of one run_once cycle come back with; balance is
\* <<>> for None and <<available>> otherwise
Inputs ==
    [position : Answers, pnl : PnlRatios, balance : {<<>>} \cup { <<b>> : b \in Balances },
     close : Answers, order : OrderAnswers]

\* OKXTrader.get_position(), lines 106-121: <<>> for None, <<dict>> otherwise
get_position(net, answer, pnl) ==
    IF answer = "ok" /\ net # 0
    THEN << [side |-> IF net > 0 THEN "long" ELSE "short", size |-> Abs(net),
             unrealized_pnl_ratio |-> pnl] >>
    ELSE <<>>

\* OKXTrader.place_order(), lines 123-155: what it returns and the position
\* of the account afterwards
place_order(net, side, size, answer) ==
    [ret |-> IF answer = "ok" THEN "ordId" ELSE "None",
     net |-> IF answer = "failed" THEN net
             ELSE IF side = "buy" THEN net + size ELSE net - size,
     calls |-> << [call |-> "place_order", side |-> side,
                   ret |-> IF answer = "ok" THEN "ordId" ELSE "None"] >>]

\* OKXTrader.close_position(), lines 157-171
OKXTrader_close_position(net, in) ==
    LET pos == get_position(net, in.close, in.pnl) IN
    IF pos = <<>>
    THEN [ret |-> "False", net |-> net, calls |-> <<>>]
    ELSE place_order(net, IF pos[1].side = "long" THEN "sell" ELSE "buy", Abs(pos[1].size),
                     in.order)

\* OKXTrader.calculate_position_size(), lines 173-193
calculate_position_size(balance) ==
    LET size == (balance * 3) \div 1000 IN
    IF size > 1 THEN size ELSE 1

\* AutoTradingBot.check_signal(), lines 251-284: the signal and the object
\* afterwards
check_signal(self, market_data, in, net) ==
    LET funding_rate == market_data.funding_rate
        pos == get_position(net, in.position, in.pnl)
    IN  IF self.position = "None"
        THEN [self |-> self,
              signal |-> IF funding_rate < AutoParams.long_threshold THEN "LONG"
                         ELSE IF funding_rate > AutoParams.short_threshold THEN "SHORT"
                         ELSE "WAIT"]
        ELSE IF pos = <<>>
        THEN [self |-> [self EXCEPT !.position = "None"], signal |-> "WAIT"]
        ELSE IF pos[1].unrealized_pnl_ratio < AutoParams.stop_loss
        THEN [self |-> self, signal |-> "CLOSE"]
        ELSE IF pos[1].unrealized_pnl_ratio > AutoParams.take_profit
        THEN [self |-> self, signal |-> "CLOSE"]
        ELSE IF Abs(funding_rate) < AutoParams.exit_threshold
        THEN [self |-> self, signal |-> "CLOSE"]
        ELSE [self |-> self, signal |-> "HOLD"]

execute_signal_without_order_check(self, sig, market_data, in, net) ==
    LET opened == [position |-> sig, entry_price |-> <<market_data.price>>,
                   entry_time |-> <<market_data.timestamp>>]
    IN  IF sig \in {"LONG", "SHORT"}
        THEN IF in.balance = <<>>
             THEN [self |-> self, net |-> net,
                   calls |-> << [call |-> "get_account_balance", ret |-> in.balance] >>]
             ELSE LET size == calculate_position_size(in.balance[1])
                      o == place_order(net, IF sig = "LONG" THEN "buy" ELSE "sell",
                                       size, in.order)
                  IN  [self |-> opened,
                       net |-> o.net,
                       calls |-> << [call |-> "get_account_balance", ret |-> in.balance] >>
                                 \o o.calls]
        ELSE LET success == OKXTrader_close_position(net, in) IN
             [self |-> IF success.ret \notin {"False", "None"}
                       THEN [position |-> "None", entry_price |-> <<>>, entry_time |-> <<>>]
                       ELSE self,
              net |-> success.net,
              calls |-> success.calls
                        \o << [call |-> "close_position", ret |-> success.ret] >>]

\* AutoTradingBot.execute_signal(), lines 286-349, for the signals run_once
\* hands it: the object, the account and the calls afterwards.  The
\* get_position of line 341 is only printed.
execute_signal(self, sig, market_data, in, net) ==
    LET opened == [position |-> sig, entry_price |-> <<market_data.price>>,
                   entry_time |-> <<market_data.timestamp>>]
    IN  IF sig \in {"LONG", "SHORT"}
        THEN IF in.balance = <<>>
             THEN [self |-> self, net |-> net,
                   calls |-> << [call |-> "get_account_balance", ret |-> in.balance] >>]
             ELSE LET size == calculate_position_size(in.balance[1])
                      o == place_order(net, IF sig = "LONG" THEN "buy" ELSE "sell",
                                       size, in.order)
                  IN  [self |-> IF o.ret # "None" THEN opened ELSE self,
                       net |-> o.net,
                       calls |-> << [call |-> "get_account_balance", ret |-> in.balance] >>
                                 \o o.calls]
        ELSE LET success == OKXTrader_close_position(net, in) IN
             [self |-> IF success.ret \notin {"False", "None"}
                       THEN [position |-> "None", entry_price |-> <<>>, entry_time |-> <<>>]
                       ELSE self,
              net |-> success.net,
              calls |-> success.calls
                        \o << [call |-> "close_position", ret |-> success.ret] >>]

\* AutoTradingBot.run_once(), lines 351-386; the get_position of line 367 is
\* only printed
run_once ==
    /\ idx < MaxRuns
    /\ \E market_data \in MarketData(idx + 1), in \in Inputs :
           LET got == << [call |-> "get_market_data", ret |-> market_data] >> IN
           IF market_data = <<>>
           THEN /\ auto_bot' = auto_bot
                /\ exchange' = [exchange EXCEPT !.calls = got]
           ELSE LET checked == check_signal(auto_bot, market_data[1], in, exchange.net)
                    log == got \o << [call |-> "check_signal", ret |-> checked.signal] >>
                IN  IF checked.signal \in {"LONG", "SHORT", "CLOSE"}
                    THEN LET done == execute_signal(checked.self, checked.signal,
                                                    market_data[1], in, exchange.net)
                         IN  /\ auto_bot' = done.self
                             /\ exchange' = [net |-> done.net, calls |-> log \o done.calls]
                    ELSE /\ auto_bot' = checked.self
                         /\ exchange' = [exchange EXCEPT !.calls = log]
    /\ idx' = idx + 1
    /\ UNCHANGED <<strategy, signal, row, trades, total_pnl, signal_log, paper_file, paper_action,
                   advice, ledger_vars, grid_vars, bot_vars, proc_vars>>

\* the process ends and is started again: __init__, lines 220-222, with the
\* account as it is
auto_restart ==
    /\ auto_bot # NewBot
    /\ auto_bot' = NewBot
    /\ exchange' = [exchange EXCEPT !.calls = <<>>]
    /\ UNCHANGED <<strategy, signal, row, idx, trades, total_pnl, signal_log, paper_file,
                   paper_action, advice, ledger_vars, grid_vars, bot_vars, proc_vars>>

AutoNext == run_once \/ auto_restart

AutoSpec == Init /\ [][AutoNext]_vars

----------------------------------------------------------------------------
(* The missing state file *)

\* C31 (as claimed): every reader of the state file gets the default initial
\* state when the file is missing: load_state() of the paper bots gives that
\* dict, and load_state() of trade_manager gives a dict too, never None.
C31_Claimed ==
    paper_file = <<>> =>
        /\ load_state.position = "None" /\ load_state.trades = <<>>
        /\ trade_manager_load_state # "None"

\* C31: while paper_state.json is missing, load_state() of the paper bots
\* gives the default state (no position, entry price 0, no entry time,
\* balance the starting 50.0 with nothing credited, no trades), a cycle that
\* opens from it saves that balance with one OPEN_SHORT record, and a cycle
\* that waits creates no file; load_state() of trade_manager gives None
\* instead, and its close_position then writes neither file.
C31_MissingFile ==
    [][ paper_file = <<>> =>
            /\ load_state = [balance |-> [start |-> 50, credits |-> <<>>],
                             position |-> "None",
                             entry_price |-> 0,
                             entry_time |-> NoTime,
                             trades |-> <<>>]
            /\ trade_manager_load_state = "None"
            /\ ManualClose => paper_file' = <<>> /\ history_file' = history_file
            /\ (Poll /\ paper_action' = "OPEN_SHORT") =>
                   /\ load_state'.balance = [start |-> 50, credits |-> <<>>]
                   /\ load_state'.position = "SHORT"
                   /\ Len(load_state'.trades) = 1
            /\ (Poll /\ paper_action' = "WAIT") => paper_file' = <<>>
      ]_vars

\* cycles and a manual close have run and there is still no state file
C31_Witness ==
    /\ paper_file = <<>>
    /\ idx > 1
    /\ paper_action = "WAIT"
    /\ row.timestamp > 0 /\ row.timestamp < idx

----------------------------------------------------------------------------
(* The neutral band *)

\* the exit band lies inside the entry thresholds
BandInside(self) ==
    /\ self.exit_threshold <= self.short_threshold
    /\ self.exit_threshold <= -self.long_threshold

\* C32: after a sample whose rate is inside the exit band has been processed
\* the engine is flat.  For generate_signal under a configuration with
\* exit_threshold <= short_threshold and exit_threshold <= -long_threshold:
\* the signal was CLOSE or HOLD and position is 0.  For paper_bot_v2, whose
\* exit threshold 0.001 is below its short threshold 0.003: the cycle closed
\* or waited and the saved position is None.
C32_NeutralBandFlat ==
    idx > 0 =>
        /\ (BandInside(strategy) /\ Abs(row.funding_rate) < strategy.exit_threshold) =>
               /\ strategy.position = 0
               /\ signal \in {"CLOSE", "HOLD"}
        /\ Abs(row.funding_rate) < PAPER_EXIT_THRESHOLD =>
               /\ PaperState.position = "None"
               /\ paper_action \in {"CLOSE", "WAIT"}

\* both deciders held a short position and have just closed it on a
\* neutral sample
C32_Witness ==
    /\ BandInside(strategy)
    /\ Abs(row.funding_rate) < strategy.exit_threshold
    /\ Abs(row.funding_rate) < PAPER_EXIT_THRESHOLD
    /\ signal = "CLOSE"
    /\ paper_action = "CLOSE"
    /\ trades # <<>> /\ trades[Len(trades)].type = "SHORT"

----------------------------------------------------------------------------
(* The stop-loss and take-profit boundaries *)

\* C33 (as claimed): a position of paper_bot_v2 that was open before the
\* sample does not survive a sample on which its pnl is exactly STOP_LOSS or
\* exactly TAKE_PROFIT.
C33_Claimed ==
    ~ /\ idx > 0
      /\ paper_file # <<>>
      /\ row.timestamp = idx
      /\ PaperState.position = "SHORT"
      /\ PaperState.entry_time < idx
      /\ PaperPnl(PaperState, row.price) \in {STOP_LOSS, TAKE_PROFIT}

----------------------------------------------------------------------------
(* Bounded retry *)

\* the call of fetch_with_retry has ended, with a value or an exception
Finished == fetch.pc \in {"returned", "raised"}

\* the attempts of the call so far were all transient failures
AllTransient == \A i \in 1..Len(fetch.log) : fetch.log[i] \in Transient

FetchSafe ==
    fetch.pc # "idle" =>
        /\ Len(fetch.log) <= fetch.retries
        /\ \A i \in 1..Len(fetch.log) - 1 : fetch.log[i] \in Transient
        /\ fetch.ret = "json" <=> (fetch.log # <<>> /\ fetch.log[Len(fetch.log)] = "json")
        /\ fetch.log # <<>> =>
               fetch.slept = Delay(fetch.module)
                   * (IF fetch.pc = "request" THEN Len(fetch.log) ELSE Len(fetch.log) - 1)
        /\ (Finished /\ AllTransient) =>
               /\ fetch.pc = "returned"
               /\ fetch.ret = "None"
               /\ Len(fetch.log) = fetch.retries
        /\ (fetch.pc \in {"request", "sleep"}) => Len(fetch.log) < fetch.retries

\* C34: a call of fetch_with_retry (paper_bot_v2's or okx_crawler_v2's) ends.
\* It makes at most `retries` attempts; every attempt before the last was a
\* transient failure, so the first successful attempt is the last one and its
\* body is what is returned; between two attempts it has slept RETRY_DELAY
\* once and after the last attempt it has not slept; and when all attempts
\* were transient failures there were `retries` of them and it returned None.
C34_BoundedRetry ==
    /\ []FetchSafe
    /\ (fetch.pc = "request") ~> Finished

\* paper_bot_v2's call with the default retries has returned None after
\* three network failures and two sleeps
C34_Witness ==
    /\ fetch.pc = "returned"
    /\ fetch.module = "paper_bot_v2"
    /\ fetch.log = <<"RequestException", "RequestException", "RequestException">>
    /\ fetch.ret = "None"
    /\ fetch.slept = 2 * RETRY_DELAY

----------------------------------------------------------------------------
(* The pnl reported by the backtest *)

\* C35 (as claimed): at a CLOSE signal with an earlier record in its list,
\* backtest_strategy reports the pnl of the position that was closed: the
\* move from that position's entry price to the price of the closing row, by
\* the side of the position.
C35_Claimed ==
    (idx > 0 /\ signal = "CLOSE" /\ Len(signal_log) >= 2) =>
        LET closed == trades[Len(trades)] IN
        backtest_strategy_pnl =
            IF closed.type = "LONG"
                THEN PctMove(row.price, closed.entry_price)
                ELSE Rat((closed.entry_price - row.price) * 100, closed.entry_price)

----------------------------------------------------------------------------
(* Two processes on one state file *)

\* the step is a write of paper_state.json by trade_manager
WrittenByManager == tm_proc.pc = "history_saved" /\ tm_proc'.pc = "idle"

\* the credits in the balance are not more than the positions opened
CreditedOnce ==
    paper_file # <<>> =>
        Len(load_state.balance.credits)
            <= Cardinality({ i \in 1..Len(load_state.trades) :
                                load_state.trades[i].action = "OPEN_SHORT" })

\* C36 (as claimed): under every interleaving of the steps of the two
\* processes, the positions credited to the balance are not more than the
\* positions opened, and every write of the state file is made from the
\* state the file holds at that moment: the dict the writer loaded is what
\* load_state() would give now.
C36_Claimed ==
    /\ []CreditedOnce
    /\ [][ paper_file' # paper_file =>
               IF WrittenByManager THEN tm_proc.state = load_state
               ELSE bot_proc.state = load_state ]_vars

----------------------------------------------------------------------------
(* The two files of the manual close *)

\* the record of the history for the position the state file shows open
RecordedOpen ==
    IF history_file = <<>> \/ paper_file = <<>> THEN {}
    ELSE { i \in 1..Len(history_file[1].trades) :
               /\ load_state.position # "None"
               /\ history_file[1].trades[i].entry_time = load_state.entry_time }

\* C37 (as claimed): whenever no close_position is between its two writes,
\* also after one was stopped there, the history holds no trade for a
\* position that the state file still shows open, and no position twice.
C37_Claimed ==
    tm_proc.pc = "idle" =>
        /\ RecordedOpen = {}
        /\ history_file # <<>> =>
               \A i, j \in 1..Len(history_file[1].trades) :
                   history_file[1].trades[i].entry_time = history_file[1].trades[j].entry_time
                       => i = j

----------------------------------------------------------------------------
(* The totals of the history *)

HistoryTotals ==
    history_file # <<>> =>
        LET history == history_file[1]
            n == Len(history.trades)
        IN
        /\ history.win_count + history.loss_count = n
        /\ history.win_count
               = Cardinality({ i \in 1..n : AmountPositive(history.trades[i].pnl_amount) })
        /\ history.total_pnl = [i \in 1..n |-> history.trades[i].pnl_amount]
        /\ \A i \in 1..n :
               /\ history.trades[i].id = i
               /\ history.trades[i].balance_after =
                      [history.trades[i].balance_before EXCEPT
                           !.credits = Append(@, history.trades[i].pnl_amount)]

\* C38: after any sequence of manual closes (with cycles of the bot between
\* them) win_count + loss_count is the number of recorded trades, win_count
\* counts the trades with a positive pnl_amount, total_pnl is the sum of the
\* pnl_amount of the trades in their order, the ids are 1..n in append order,
\* every balance_after is its balance_before plus its pnl_amount, and the
\* close that appends a record leaves its balance_after as the balance of the
\* state file.
C38_History ==
    /\ []HistoryTotals
    /\ [][ history_file' # history_file =>
               LET history == history_file'[1] IN
               /\ Len(history.trades) = Len(load_history.trades) + 1
               /\ SubSeq(history.trades, 1, Len(load_history.trades)) = load_history.trades
               /\ history.trades[Len(history.trades)].balance_before = load_state.balance
               /\ history.trades[Len(history.trades)].balance_after = load_state'.balance
         ]_vars

\* two manual closes, one at a gain and one at a loss
C38_Witness ==
    /\ history_file # <<>>
    /\ Len(history_file[1].trades) = 2
    /\ history_file[1].win_count = 1
    /\ history_file[1].loss_count = 1
    /\ load_state.balance = history_file[1].trades[2].balance_after

----------------------------------------------------------------------------
(* The position of the account and the orders of AutoTradingBot *)

\* the calls of this run_once hold an order placed by execute_signal for a
\* LONG or SHORT signal
OpeningOrder(calls) ==
    /\ Len(calls) >= 2
    /\ calls[2].call = "check_signal"
    /\ calls[2].ret \in {"LONG", "SHORT"}
    /\ \E i \in DOMAIN calls : calls[i].call = "place_order"

\* C39 (as claimed): AutoTradingBot places no opening order while the account
\* already holds a position, in any run_once cycle, the first one after a
\* restart included, so the account never holds more than the one position
\* that one order opened.
C39_Claimed ==
    [][OpeningOrder(exchange'.calls) => exchange.net = 0]_vars

----------------------------------------------------------------------------
(* The fields execute_signal records *)

\* what check_signal returned in the last run_once, "None" when it was not called
LastSignal ==
    IF Len(exchange.calls) >= 2 THEN exchange.calls[2].ret ELSE "None"

\* the call named c of the last run_once returned something true
Returned(c) ==
    \E i \in DOMAIN exchange.calls :
        /\ exchange.calls[i].call = c
        /\ exchange.calls[i].ret \notin {"None", "False"}

\* the call named c of the last run_once was made and returned None or False
Failed(c) ==
    \E i \in DOMAIN exchange.calls :
        /\ exchange.calls[i].call = c
        /\ exchange.calls[i].ret \in {"None", "False"}

\* C40: in a cycle that hands execute_signal a LONG or SHORT signal, the
\* three fields become the signal, the price and the timestamp of the market
\* data exactly when place_order returned an order id, and stay as they were
\* when the balance or the order failed; in a cycle with a CLOSE signal they
\* are cleared exactly when close_position returned an order id and stay as
\* they were otherwise.
C40_RecordedOnSuccess ==
    [][ LET market_data == exchange'.calls[1].ret[1] IN
        /\ LastSignal' \in {"LONG", "SHORT"} =>
               IF Returned("place_order")'
               THEN auto_bot' = [position |-> LastSignal',
                                 entry_price |-> <<market_data.price>>,
                                 entry_time |-> <<market_data.timestamp>>]
               ELSE auto_bot' = auto_bot
        /\ LastSignal' = "CLOSE" =>
               IF Returned("close_position")'
               THEN auto_bot' = NewBot
               ELSE auto_bot' = auto_bot ]_vars

\* an order that failed in a cycle with a LONG or SHORT signal, and a close
\* that failed on a bot that holds a position
C40_Witness ==
    \/ LastSignal \in {"LONG", "SHORT"} /\ Failed("place_order") /\ auto_bot.position = "None"
    \/ LastSignal = "CLOSE" /\ Failed("close_position") /\ auto_bot.position # "None"

====
